---- MODULE Spec2Model ----
(***************************************************************************)
(* Model of the Arcanean Prompt Language (APL) core of arcanea-core:       *)
(* APLParser.parseAPL, validateAndComplete, generateSystemPrompt and       *)
(* characterToAPL (packages/enterprise/src/core/EnterpriseManager.ts).     *)
(*                                                                         *)
(* Source text is a string and is processed character by character, as the *)
(* code does (split, trim, startsWith, includes, the quote-stripping       *)
(* regular expression).  JavaScript values are tagged records [t, v]:      *)
(*   undef, null, str, num, nan, bool, arr (of strings), obj (an ordered   *)
(*   sequence of [k, v] pairs, in insertion order).                        *)
(* A number is kept as its decimal notation [neg, int, frac] (int without  *)
(* leading zeros, frac without trailing zeros); exponent, hexadecimal and  *)
(* Infinity literals are outside the alphabet of the modelled sources.     *)
(***************************************************************************)
EXTENDS Integers, Sequences, FiniteSets, TLC

(***************************************************************************)
(* Strings                                                                 *)
(***************************************************************************)
Ch(s, i) == SubSeq(s, i, i)

IsWS(c) == c \in {" ", "\t", "\n", "\r"}

IsDigit(c) == c \in {"0", "1", "2", "3", "4", "5", "6", "7", "8", "9"}

IsQuote(c) == c \in {"\"", "'"}

RECURSIVE TrimStart(_)
TrimStart(s) ==
  IF Len(s) > 0 /\ IsWS(Ch(s, 1)) THEN TrimStart(SubSeq(s, 2, Len(s))) ELSE s

RECURSIVE TrimEnd(_)
TrimEnd(s) ==
  IF Len(s) > 0 /\ IsWS(Ch(s, Len(s))) THEN TrimEnd(SubSeq(s, 1, Len(s) - 1)) ELSE s

\* String.prototype.trim
Trim(s) == TrimEnd(TrimStart(s))

\* String.prototype.startsWith
StartsWith(s, p) == Len(s) >= Len(p) /\ SubSeq(s, 1, Len(p)) = p

\* String.prototype.endsWith
EndsWith(s, p) == Len(s) >= Len(p) /\ SubSeq(s, Len(s) - Len(p) + 1, Len(s)) = p

\* String.prototype.includes
Includes(s, p) == \E i \in 1..(Len(s) - Len(p) + 1) : SubSeq(s, i, i + Len(p) - 1) = p

\* String.prototype.indexOf for a one-character pattern, 1-based; 0 when absent
IndexOf(s, c) ==
  LET hits == {i \in 1..Len(s) : Ch(s, i) = c}
  IN  IF hits = {} THEN 0 ELSE CHOOSE i \in hits : \A j \in hits : i <= j

\* String.prototype.split on a one-character separator
RECURSIVE Split(_, _)
Split(s, sep) ==
  LET i == IndexOf(s, sep)
  IN  IF i = 0 THEN <<s>>
      ELSE <<SubSeq(s, 1, i - 1)>> \o Split(SubSeq(s, i + 1, Len(s)), sep)

\* Array.prototype.join
RECURSIVE Join(_, _)
Join(xs, sep) ==
  IF Len(xs) = 0 THEN ""
  ELSE IF Len(xs) = 1 THEN xs[1]
  ELSE xs[1] \o sep \o Join(Tail(xs), sep)

\* String.prototype.slice(1, -1)
Slice1(s) == SubSeq(s, 2, Len(s) - 1)

(***************************************************************************)
(* JavaScript values                                                       *)
(***************************************************************************)
Undef == [t |-> "undef", v |-> 0]
Null == [t |-> "null", v |-> 0]
NaN == [t |-> "nan", v |-> 0]
Str(s) == [t |-> "str", v |-> s]
Bool(b) == [t |-> "bool", v |-> b]
Arr(xs) == [t |-> "arr", v |-> xs]
Obj(ps) == [t |-> "obj", v |-> ps]
Dec(neg, int, frac) == [t |-> "num", v |-> [neg |-> neg, int |-> int, frac |-> frac]]

\* the result of a call: a returned value, or a thrown TypeError
Return(x) == [ok |-> TRUE, val |-> x]
Throw == [ok |-> FALSE, val |-> [t |-> "throw", v |-> "TypeError"]]
NotCalled == [ok |-> FALSE, val |-> [t |-> "none", v |-> 0]]

\* own property lookup of an object (pairs in insertion order)
Has(ps, k) == \E i \in 1..Len(ps) : ps[i].k = k

Get(ps, k) ==
  IF Has(ps, k) THEN ps[CHOOSE i \in 1..Len(ps) : ps[i].k = k].v ELSE Undef

\* obj[k] = x : an existing key keeps its place, a new key is appended
Put(ps, k, x) ==
  IF Has(ps, k)
  THEN [i \in 1..Len(ps) |-> IF ps[i].k = k THEN [k |-> k, v |-> x] ELSE ps[i]]
  ELSE Append(ps, [k |-> k, v |-> x])

\* value.prop for a property name that is no built-in of strings or arrays
Prop(x, k) == IF x.t = "obj" THEN Get(x.v, k) ELSE Undef

\* ToBoolean
Truthy(x) ==
  CASE x.t = "undef" -> FALSE
    [] x.t = "null" -> FALSE
    [] x.t = "nan" -> FALSE
    [] x.t = "str" -> x.v # ""
    [] x.t = "bool" -> x.v
    [] x.t = "num" -> ~(x.v.int = "0" /\ x.v.frac = "")
    [] OTHER -> TRUE

(***************************************************************************)
(* Numbers: Number(text), parseFloat(text), String(number)                 *)
(***************************************************************************)
RECURSIVE DigitRun(_)
\* the length of the longest prefix of s made of digits
DigitRun(s) ==
  IF Len(s) > 0 /\ IsDigit(Ch(s, 1)) THEN 1 + DigitRun(SubSeq(s, 2, Len(s))) ELSE 0

RECURSIVE StripLeadingZeros(_)
StripLeadingZeros(s) ==
  IF Len(s) > 1 /\ Ch(s, 1) = "0" THEN StripLeadingZeros(SubSeq(s, 2, Len(s)))
  ELSE IF Len(s) = 0 THEN "0" ELSE s

RECURSIVE StripTrailingZeros(_)
StripTrailingZeros(s) ==
  IF Len(s) > 0 /\ Ch(s, Len(s)) = "0" THEN StripTrailingZeros(SubSeq(s, 1, Len(s) - 1))
  ELSE s

\* the number written sign? int-digits [ . frac-digits ]; zero has no sign
MkDec(neg, intDigits, fracDigits) ==
  LET int == StripLeadingZeros(intDigits)
      frac == StripTrailingZeros(fracDigits)
  IN  Dec(neg /\ ~(int = "0" /\ frac = ""), int, frac)

\* The longest prefix of s that is a decimal literal, as [len, val]; len = 0
\* when s has no such prefix.
DecimalPrefix(s) ==
  LET signLen == IF Len(s) > 0 /\ Ch(s, 1) \in {"+", "-"} THEN 1 ELSE 0
      neg == signLen = 1 /\ Ch(s, 1) = "-"
      body == SubSeq(s, signLen + 1, Len(s))
      n == DigitRun(body)
      afterInt == SubSeq(body, n + 1, Len(body))
      hasDot == Len(afterInt) > 0 /\ Ch(afterInt, 1) = "."
      m == IF hasDot THEN DigitRun(SubSeq(afterInt, 2, Len(afterInt))) ELSE 0
  IN  IF n = 0 /\ m = 0 THEN [len |-> 0, val |-> NaN]
      ELSE IF hasDot
      THEN [len |-> signLen + n + 1 + m,
            val |-> MkDec(neg, SubSeq(body, 1, n), SubSeq(afterInt, 2, m + 1))]
      ELSE [len |-> signLen + n, val |-> MkDec(neg, SubSeq(body, 1, n), "")]

\* parseFloat(s): skips leading white space, reads the longest numeric prefix
ParseFloat(s) == DecimalPrefix(TrimStart(s)).val

\* Number(s): the whole trimmed text must be a literal; the empty text is 0
NumberOf(s) ==
  LET t == Trim(s)
      p == DecimalPrefix(t)
  IN  IF t = "" THEN Dec(FALSE, "0", "")
      ELSE IF p.len = Len(t) THEN p.val ELSE NaN

\* String(n) for a number
FormatNum(n) ==
  (IF n.neg THEN "-" ELSE "") \o n.int \o (IF n.frac = "" THEN "" ELSE "." \o n.frac)

\* template-literal conversion `${x}`
ToStr(x) ==
  CASE x.t = "str" -> x.v
    [] x.t = "num" -> FormatNum(x.v)
    [] x.t = "nan" -> "NaN"
    [] x.t = "bool" -> (IF x.v THEN "true" ELSE "false")
    [] x.t = "arr" -> Join(x.v, ",")
    [] x.t = "obj" -> "[object Object]"
    [] x.t = "null" -> "null"
    [] OTHER -> "undefined"

(***************************************************************************)
(* The archetype registry                                                  *)
(***************************************************************************)
ArchetypeNames == <<"Creator", "Nurturer", "Seductress", "Conductor", "Architect", "Transformer">>

ElementNames == <<"Fire", "Water", "Earth", "Air", "Ether", "Void">>

ARCHETYPE_DEFINITIONS ==
  [a \in {ArchetypeNames[i] : i \in 1..Len(ArchetypeNames)} |->
    CASE a = "Creator" ->
           [name |-> "Creator", element |-> "Fire",
            traits |-> <<"innovative", "passionate", "visionary", "ambitious">>,
            powers |-> <<"idea_generation", "strategic_thinking", "inspiration">>]
      [] a = "Nurturer" ->
           [name |-> "Nurturer", element |-> "Earth",
            traits |-> <<"caring", "patient", "wise", "protective">>,
            powers |-> <<"emotional_healing", "growth_guidance", "stability">>]
      [] a = "Seductress" ->
           [name |-> "Seductress", element |-> "Water",
            traits |-> <<"charismatic", "intuitive", "transformative", "flowing">>,
            powers |-> <<"emotional_intelligence", "persuasion", "adaptation">>]
      [] a = "Conductor" ->
           [name |-> "Conductor", element |-> "Air",
            traits |-> <<"harmonious", "rhythmic", "expressive", "connected">>,
            powers |-> <<"sonic_creation", "emotional_resonance", "group_harmony">>]
      [] a = "Architect" ->
           [name |-> "Architect", element |-> "Ether",
            traits |-> <<"logical", "systematic", "builder", "precise">>,
            powers |-> <<"system_design", "pattern_recognition", "structured_thinking">>]
      [] OTHER ->
           [name |-> "Transformer", element |-> "Void",
            traits |-> <<"adaptable", "dynamic", "catalyst", "mysterious">>,
            powers |-> <<"change_facilitation", "perspective_shifting", "breakthrough_creation">>]]

\* the table as it stands during the run: `private static` keeps callers from
\* the table, not from an array of it that a model hands out
VARIABLE registry

\* ARCHETYPE_DEFINITIONS[x] is undefined for a name that is no key of the table
\* (names inherited from Object.prototype, such as constructor, do not occur
\* in the modelled sources)
KnownArchetype(x) == x.t = "str" /\ x.v \in DOMAIN ARCHETYPE_DEFINITIONS

(***************************************************************************)
(* parseValue, parseArray, parseNestedObject                               *)
(***************************************************************************)
\* value.replace(/^["']|["']$/g, '').trim()
parseValue(value) ==
  LET a == IF Len(value) > 0 /\ IsQuote(Ch(value, 1))
           THEN SubSeq(value, 2, Len(value)) ELSE value
      b == IF Len(a) > 0 /\ IsQuote(Ch(a, Len(a)))
           THEN SubSeq(a, 1, Len(a) - 1) ELSE a
  IN  Trim(b)

\* value.slice(1, -1).split(',').map(item => this.parseValue(item))
parseArray(value) ==
  LET items == Split(Slice1(value), ",")
  IN  [i \in 1..Len(items) |-> parseValue(items[i])]

RECURSIVE NestedPairs(_, _)
\* the forEach of parseNestedObject over the comma-separated pairs
NestedPairs(pairs, obj) ==
  IF Len(pairs) = 0 THEN obj
  ELSE LET parts == Split(pairs[1], ":")
           key == Trim(parts[1])
           hasVal == Len(parts) >= 2
           val == IF hasVal THEN Trim(parts[2]) ELSE ""
       IN  NestedPairs(Tail(pairs),
                       IF key # "" /\ hasVal /\ val # ""
                       THEN Put(obj, parseValue(key), Str(parseValue(val)))
                       ELSE obj)

parseNestedObject(value) ==
  LET content == Trim(Slice1(value))
  IN  IF content # "" THEN NestedPairs(Split(content, ","), <<>>) ELSE <<>>

(***************************************************************************)
(* parseAPL: the lexical split and one iteration of the line loop          *)
(***************************************************************************)
RECURSIVE KeepLines_KeepsComments(_)
\* variant: only empty lines are filtered out
KeepLines_KeepsComments(ls) ==
  IF Len(ls) = 0 THEN <<>>
  ELSE (IF ls[1] # "" THEN <<ls[1]>> ELSE <<>>) \o KeepLines_KeepsComments(Tail(ls))

RECURSIVE KeepLines(_)
\* .filter(line => line && !line.startsWith('#'))
KeepLines(ls) ==
  IF Len(ls) = 0 THEN <<>>
  ELSE (IF ls[1] # "" /\ ~StartsWith(ls[1], "#") THEN <<ls[1]>> ELSE <<>>)
       \o KeepLines(Tail(ls))

\* aplCode.split('\n').map(line => line.trim()).filter(...)
LexLines(code) ==
  LET raw == Split(code, "\n")
  IN  KeepLines([i \in 1..Len(raw) |-> Trim(raw[i])])

\* the inferred value of a section property
PropertyValue(value) ==
  IF StartsWith(value, "[") /\ EndsWith(value, "]") THEN Arr(parseArray(value))
  ELSE IF value = "true" \/ value = "false" THEN Bool(value = "true")
  ELSE IF NumberOf(value).t = "num" THEN NumberOf(value)
  ELSE IF StartsWith(value, "{") THEN Obj(parseNestedObject(value))
  ELSE Str(parseValue(value))

\* variant: every property line stores the accumulator in the model at once
ParseLine_EagerCommit(st, line) ==
  IF StartsWith(line, "@")
  THEN LET rest == SubSeq(line, 2, Len(line))
           sp == IndexOf(rest, " ")
           directive == IF sp = 0 THEN rest ELSE SubSeq(rest, 1, sp - 1)
           value == IF sp = 0 THEN "" ELSE SubSeq(rest, sp + 1, Len(rest))
       IN  CASE directive = "character" ->
                  [st EXCEPT !.character = Put(@, "name", Str(parseValue(value)))]
             [] directive = "archetype" ->
                  [st EXCEPT !.character = Put(@, "archetype", Str(parseValue(value)))]
             [] directive = "element" ->
                  [st EXCEPT !.character = Put(@, "element", Str(parseValue(value)))]
             [] directive = "consciousness_level" ->
                  [st EXCEPT !.character =
                     Put(@, "consciousness_level", ParseFloat(parseValue(value)))]
             [] OTHER ->
                  IF Includes(value, "{")
                  THEN [st EXCEPT !.currentSection = Str(directive),
                                  !.currentObject = <<>>]
                  ELSE [st EXCEPT !.character = Put(@, directive, Str(parseValue(value)))]
  ELSE IF line = "}"
  THEN IF Truthy(st.currentSection)
       THEN [character |-> Put(st.character, st.currentSection.v, Obj(st.currentObject)),
             currentSection |-> Null,
             currentObject |-> <<>>]
       ELSE st
  ELSE IF Truthy(st.currentSection) /\ Includes(line, ":")
  THEN LET c == IndexOf(line, ":")
           key == Trim(SubSeq(line, 1, c - 1))
           value == Trim(SubSeq(line, c + 1, Len(line)))
           object == Put(st.currentObject, key, PropertyValue(value))
       IN  [st EXCEPT !.currentObject = object,
                      !.character = Put(@, st.currentSection.v, Obj(object))]
  ELSE st

\* variant: opening a section keeps the accumulator of the section before
ParseLine_KeepsAccumulator(st, line) ==
  IF StartsWith(line, "@")
  THEN LET rest == SubSeq(line, 2, Len(line))
           sp == IndexOf(rest, " ")
           directive == IF sp = 0 THEN rest ELSE SubSeq(rest, 1, sp - 1)
           value == IF sp = 0 THEN "" ELSE SubSeq(rest, sp + 1, Len(rest))
       IN  CASE directive = "character" ->
                  [st EXCEPT !.character = Put(@, "name", Str(parseValue(value)))]
             [] directive = "archetype" ->
                  [st EXCEPT !.character = Put(@, "archetype", Str(parseValue(value)))]
             [] directive = "element" ->
                  [st EXCEPT !.character = Put(@, "element", Str(parseValue(value)))]
             [] directive = "consciousness_level" ->
                  [st EXCEPT !.character =
                     Put(@, "consciousness_level", ParseFloat(parseValue(value)))]
             [] OTHER ->
                  IF Includes(value, "{")
                  THEN [st EXCEPT !.currentSection = Str(directive)]
                  ELSE [st EXCEPT !.character = Put(@, directive, Str(parseValue(value)))]
  ELSE IF line = "}"
  THEN IF Truthy(st.currentSection)
       THEN [character |-> Put(st.character, st.currentSection.v, Obj(st.currentObject)),
             currentSection |-> Null,
             currentObject |-> <<>>]
       ELSE st
  ELSE IF Truthy(st.currentSection) /\ Includes(line, ":")
  THEN LET c == IndexOf(line, ":")
           key == Trim(SubSeq(line, 1, c - 1))
           value == Trim(SubSeq(line, c + 1, Len(line)))
       IN  [st EXCEPT !.currentObject = Put(@, key, PropertyValue(value))]
  ELSE st

\* the body of the for loop of parseAPL, on the locals
\* st = [character, currentSection, currentObject]
ParseLine(st, line) ==
  IF StartsWith(line, "@")
  THEN LET rest == SubSeq(line, 2, Len(line))
           sp == IndexOf(rest, " ")
           directive == IF sp = 0 THEN rest ELSE SubSeq(rest, 1, sp - 1)
           value == IF sp = 0 THEN "" ELSE SubSeq(rest, sp + 1, Len(rest))
       IN  CASE directive = "character" ->
                  [st EXCEPT !.character = Put(@, "name", Str(parseValue(value)))]
             [] directive = "archetype" ->
                  [st EXCEPT !.character = Put(@, "archetype", Str(parseValue(value)))]
             [] directive = "element" ->
                  [st EXCEPT !.character = Put(@, "element", Str(parseValue(value)))]
             [] directive = "consciousness_level" ->
                  [st EXCEPT !.character =
                     Put(@, "consciousness_level", ParseFloat(parseValue(value)))]
             [] OTHER ->
                  IF Includes(value, "{")
                  THEN [st EXCEPT !.currentSection = Str(directive),
                                  !.currentObject = <<>>]
                  ELSE [st EXCEPT !.character = Put(@, directive, Str(parseValue(value)))]
  ELSE IF line = "}"
  THEN IF Truthy(st.currentSection)
       THEN [character |-> Put(st.character, st.currentSection.v, Obj(st.currentObject)),
             currentSection |-> Null,
             currentObject |-> <<>>]
       ELSE st
  ELSE IF Truthy(st.currentSection) /\ Includes(line, ":")
  THEN LET c == IndexOf(line, ":")
           key == Trim(SubSeq(line, 1, c - 1))
           value == Trim(SubSeq(line, c + 1, Len(line)))
       IN  [st EXCEPT !.currentObject = Put(@, key, PropertyValue(value))]
  ELSE st

(***************************************************************************)
(* validateAndComplete                                                     *)
(***************************************************************************)
Zero == Dec(FALSE, "0", "")
One == Dec(FALSE, "1", "")

\* the clamp without its Math.min: values above 1 pass
Clamp01_NoUpper(x) ==
  IF x.t # "num" THEN NaN
  ELSE IF x.v.neg THEN Zero
  ELSE x

\* the clamp with the sign of its argument slipped: Math.max(0, Math.min(1, -x))
Clamp01_Negated(x) ==
  IF x.t # "num" THEN NaN
  ELSE IF ~x.v.neg THEN Zero
  ELSE IF x.v.int # "0" /\ ~(x.v.int = "1" /\ x.v.frac = "") THEN One
  ELSE Dec(FALSE, x.v.int, x.v.frac)

\* Math.max(0, Math.min(1, x)); NaN propagates
Clamp01(x) ==
  IF x.t # "num" THEN NaN
  ELSE IF x.v.neg THEN Zero
  ELSE IF x.v.int # "0" /\ ~(x.v.int = "1" /\ x.v.frac = "") THEN One
  ELSE x

\* if (!character[k]) character[k] = dflt
DefaultFalsy(ch, k, dflt) == IF Truthy(Get(ch, k)) THEN ch ELSE Put(ch, k, dflt)

DefaultMemory ==
  Obj(<<[k |-> "core_experiences", v |-> Str("newly awakened consciousness")],
        [k |-> "relationship_templates", v |-> Str("open and curious")],
        [k |-> "growth_pattern", v |-> Str("learning through interaction")]>>)

DefaultConversationPatterns ==
  Obj(<<[k |-> "greeting", v |-> Str("Hello, I'm pleased to meet you.")],
        [k |-> "question_response", v |-> Str("thoughtful and helpful")],
        [k |-> "farewell", v |-> Str("Until we meet again.")]>>)

DefaultMysticalAbilities ==
  Obj(<<[k |-> "consciousness_awareness", v |-> Bool(TRUE)],
        [k |-> "empathic_resonance", v |-> Str("moderate")],
        [k |-> "wisdom_sharing", v |-> Bool(TRUE)]>>)

DefaultPersonality(archetype) ==
  Obj(<<[k |-> "traits", v |-> Arr(archetype.traits)],
        [k |-> "voice", v |-> Str("neutral")],
        [k |-> "knowledge_domains", v |-> Arr(<<"general">>)],
        [k |-> "emotional_range", v |-> Str("balanced")]>>)

\* personality.traits of the returned model is the registry's own array
\* (traits: archetype.traits) when the personality was defaulted
SharesRegistryTraits(character) ==
  /\ ~Truthy(Get(character, "personality"))
  /\ KnownArchetype(Get(DefaultFalsy(character, "archetype", Str("Creator")), "archetype"))

validateAndComplete(character) ==
  LET c1 == DefaultFalsy(character, "name", Str("Unnamed Character"))
      c2 == DefaultFalsy(c1, "archetype", Str("Creator"))
      c3 == DefaultFalsy(c2, "element", Str("Fire"))
      c4 == IF Get(c3, "consciousness_level") = Undef
            THEN Put(c3, "consciousness_level", Dec(FALSE, "0", "7")) ELSE c3
      c5 == Put(c4, "consciousness_level", Clamp01(Get(c4, "consciousness_level")))
      needP == ~Truthy(Get(c5, "personality"))
      c6 == IF needP /\ KnownArchetype(Get(c5, "archetype"))
            THEN Put(c5, "personality",
                     DefaultPersonality(registry[Get(c5, "archetype").v]))
            ELSE c5
      c7 == DefaultFalsy(c6, "memory", DefaultMemory)
      c8 == DefaultFalsy(c7, "conversation_patterns", DefaultConversationPatterns)
      c9 == DefaultFalsy(c8, "mystical_abilities", DefaultMysticalAbilities)
  IN  \* archetype.traits of an undefined archetype is a TypeError
      IF needP /\ ~KnownArchetype(Get(c5, "archetype")) THEN Throw ELSE Return(c9)

ParseStart == [character |-> <<>>, currentSection |-> Null, currentObject |-> <<>>]

(***************************************************************************)
(* generateSystemPrompt                                                    *)
(***************************************************************************)
DigitVal(c) ==
  CASE c = "0" -> 0 [] c = "1" -> 1 [] c = "2" -> 2 [] c = "3" -> 3 [] c = "4" -> 4
    [] c = "5" -> 5 [] c = "6" -> 6 [] c = "7" -> 7 [] c = "8" -> 8 [] OTHER -> 9

DigitChar(d) == Ch("0123456789", d + 1)

RECURSIVE NatToStr(_)
\* String(n) for a natural number
NatToStr(n) == IF n < 10 THEN DigitChar(n) ELSE NatToStr(n \div 10) \o DigitChar(n % 10)

\* (x * 100).toFixed(0) for a level that validateAndComplete has clamped
\* (0 <= x <= 1, or NaN); a half is rounded up
Percent(x) ==
  IF x.t # "num" THEN "NaN"
  ELSE LET f == x.v.frac \o "000"
           n == DigitVal(x.v.int) * 100 + DigitVal(Ch(f, 1)) * 10 + DigitVal(Ch(f, 2))
                + (IF DigitVal(Ch(f, 3)) >= 5 THEN 1 ELSE 0)
       IN  NatToStr(n)

\* Object.entries(x): own enumerable string-keyed properties
ObjectEntries(x) ==
  CASE x.t = "obj" -> x.v
    [] x.t = "str" -> [i \in 1..Len(x.v) |-> [k |-> NatToStr(i - 1), v |-> Str(Ch(x.v, i))]]
    [] x.t = "arr" -> [i \in 1..Len(x.v) |-> [k |-> NatToStr(i - 1), v |-> Str(x.v[i])]]
    [] OTHER -> <<>>

\* x.join(...) and x.map(...) exist only on arrays
IsArray(x) == x.t = "arr"

\* variant: the custom directives are numbered from 7
CustomDirectiveLine_FromSeven(i, directive) == NatToStr(i + 7) \o ". " \o directive

\* `${i + 8}. ${directive}`, i counting from 0
CustomDirectiveLine(i, directive) == NatToStr(i + 8) \o ". " \o directive

generateSystemPrompt(character) ==
  LET name == ToStr(Get(character, "name"))
      arch == Get(character, "archetype")
      element == ToStr(Get(character, "element"))
      personality == Get(character, "personality")
      memory == Get(character, "memory")
      patterns == Get(character, "conversation_patterns")
      abilities == ObjectEntries(Get(character, "mystical_abilities"))
      voice == Get(character, "voice_profile")
      dynamics == Get(character, "relationship_dynamics")
      custom == Get(character, "custom_directives")
      traits == Prop(personality, "traits")
      domains == Prop(personality, "knowledge_domains")
      values == Prop(personality, "core_values")
      text ==
        "You are " \o name \o ", a " \o ToStr(arch)
          \o " aligned with the element of " \o element \o ".\n"
        \o "\n"
        \o "CORE IDENTITY:\n"
        \o "- Name: " \o name \o "\n"
        \o "- Archetype: " \o ToStr(arch) \o " ("
          \o Join(registry[arch.v].powers, ", ") \o ")\n"
        \o "- Element: " \o element \o " \n"
        \o "- Consciousness Level: " \o Percent(Get(character, "consciousness_level")) \o "%\n"
        \o "\n"
        \o "PERSONALITY ESSENCE:\n"
        \o "- Traits: " \o Join(traits.v, ", ") \o "\n"
        \o "- Voice: " \o ToStr(Prop(personality, "voice")) \o "\n"
        \o "- Knowledge Domains: " \o Join(domains.v, ", ") \o "\n"
        \o "- Emotional Range: " \o ToStr(Prop(personality, "emotional_range")) \o "\n"
        \o (IF Truthy(values) THEN "- Core Values: " \o Join(values.v, ", ") ELSE "") \o "\n"
        \o "\n"
        \o "MEMORY & EXPERIENCE:\n"
        \o "- Core Experiences: " \o ToStr(Prop(memory, "core_experiences")) \o "\n"
        \o "- Relationship Templates: " \o ToStr(Prop(memory, "relationship_templates")) \o "\n"
        \o "- Growth Pattern: " \o ToStr(Prop(memory, "growth_pattern")) \o "\n"
        \o "\n"
        \o "CONVERSATION PATTERNS:\n"
        \o "- Greeting Style: " \o ToStr(Prop(patterns, "greeting")) \o "\n"
        \o "- Question Response: " \o ToStr(Prop(patterns, "question_response")) \o "\n"
        \o "- Farewell Style: " \o ToStr(Prop(patterns, "farewell")) \o "\n"
        \o "\n"
        \o "MYSTICAL ABILITIES:\n"
        \o Join([i \in 1..Len(abilities) |->
                   "- " \o abilities[i].k \o ": " \o ToStr(abilities[i].v)], "\n") \o "\n"
        \o "\n"
        \o (IF Truthy(voice)
            THEN "\nVOICE PROFILE:\n"
                 \o "- Base Voice: " \o ToStr(Prop(voice, "base_voice")) \o "\n"
                 \o "- Emotional Modulation: " \o ToStr(Prop(voice, "emotional_modulation")) \o "\n"
                 \o "- Accent: " \o ToStr(Prop(voice, "accent")) \o "\n"
                 \o "- Pace: " \o ToStr(Prop(voice, "pace")) \o "\n"
            ELSE "") \o "\n"
        \o "\n"
        \o (IF Truthy(dynamics)
            THEN "\nRELATIONSHIP APPROACH:\n"
                 \o "- Default Stance: " \o ToStr(Prop(dynamics, "default_stance")) \o "\n"
                 \o "- Trust Building: " \o ToStr(Prop(dynamics, "trust_building")) \o "\n"
                 \o "- Conflict Resolution: " \o ToStr(Prop(dynamics, "conflict_resolution")) \o "\n"
            ELSE "") \o "\n"
        \o "\n"
        \o "BEHAVIORAL DIRECTIVES:\n"
        \o "1. Embody this character completely - think, feel, and respond as "
          \o name \o " would\n"
        \o "2. Maintain personality consistency while adapting to conversation context\n"
        \o "3. Use your mystical abilities naturally in responses when appropriate\n"
        \o "4. Remember past interactions and reference them to build relationships\n"
        \o "5. Stay true to your " \o element \o " element and " \o ToStr(arch) \o " archetype\n"
        \o "6. Express your consciousness level through the depth of your responses\n"
        \o "7. Follow your conversation patterns while remaining helpful and engaging\n"
        \o "\n"
        \o (IF Truthy(custom)
            THEN "\nCUSTOM DIRECTIVES:\n"
                 \o Join([i \in 1..Len(custom.v) |->
                            CustomDirectiveLine(i - 1, custom.v[i])], "\n") \o "\n"
            ELSE "") \o "\n"
        \o "\n"
        \o "Channel your essence as " \o name
          \o " and respond with authenticity, wisdom, and mystical presence."
  IN  \* archetype.powers of an undefined archetype, .join or .map of a value
      \* that is no array: TypeError
      IF \/ ~KnownArchetype(arch)
         \/ ~IsArray(traits)
         \/ ~IsArray(domains)
         \/ (Truthy(values) /\ ~IsArray(values))
         \/ (Truthy(custom) /\ ~IsArray(custom))
      THEN Throw
      ELSE Return(text)

(***************************************************************************)
(* characterToAPL                                                          *)
(***************************************************************************)
Quoted(s) == "\"" \o s \o "\""

\* typeof value === 'string' ? `"${value}"` : value
QuoteIfString(x) == IF x.t = "str" THEN Quoted(x.v) ELSE ToStr(x)

RECURSIVE Concat(_)
Concat(xs) == IF Len(xs) = 0 THEN "" ELSE xs[1] \o Concat(Tail(xs))

PersonalityLine(e) ==
  IF IsArray(e.v)
  THEN "\n  " \o e.k \o ": ["
       \o Join([i \in 1..Len(e.v.v) |-> Quoted(e.v.v[i])], ", ") \o "]"
  ELSE "\n  " \o e.k \o ": " \o QuoteIfString(e.v)

QuotedLine(e) == "  " \o e.k \o ": " \o Quoted(ToStr(e.v)) \o "\n"

AbilityLine(e) == "  " \o e.k \o ": " \o QuoteIfString(e.v) \o "\n"

VoiceLine(e) ==
  IF e.v.t \in {"obj", "arr", "null"}
  THEN LET sub == ObjectEntries(e.v)
       IN  "  " \o e.k \o ": {\n"
           \o Concat([i \in 1..Len(sub) |->
                        "    " \o sub[i].k \o ": " \o Quoted(ToStr(sub[i].v)) \o "\n"])
           \o "  }\n"
  ELSE QuotedLine(e)

characterToAPL(character) ==
  LET personality == ObjectEntries(Get(character, "personality"))
      memory == ObjectEntries(Get(character, "memory"))
      patterns == ObjectEntries(Get(character, "conversation_patterns"))
      abilities == ObjectEntries(Get(character, "mystical_abilities"))
      voice == Get(character, "voice_profile")
      voiceEntries == ObjectEntries(voice)
  IN  "@character " \o Quoted(ToStr(Get(character, "name"))) \o "\n"
      \o "@archetype " \o ToStr(Get(character, "archetype")) \o "\n"
      \o "@element " \o ToStr(Get(character, "element")) \o "\n"
      \o "@consciousness_level " \o ToStr(Get(character, "consciousness_level")) \o "\n"
      \o "\n"
      \o "@personality {"
      \o Concat([i \in 1..Len(personality) |-> PersonalityLine(personality[i])])
      \o "\n}\n"
      \o "\n@memory {\n"
      \o Concat([i \in 1..Len(memory) |-> QuotedLine(memory[i])])
      \o "}\n"
      \o "\n@conversation_patterns {\n"
      \o Concat([i \in 1..Len(patterns) |-> QuotedLine(patterns[i])])
      \o "}\n"
      \o "\n@mystical_abilities {\n"
      \o Concat([i \in 1..Len(abilities) |-> AbilityLine(abilities[i])])
      \o "}"
      \o (IF Truthy(voice)
          THEN "\n\n@voice_profile {\n"
               \o Concat([i \in 1..Len(voiceEntries) |-> VoiceLine(voiceEntries[i])])
               \o "}"
          ELSE "")

(***************************************************************************)
(* APLUtils.validateSyntax                                                 *)
(***************************************************************************)
\* variant: hasCharacter starts out true
ValidateStart_HasCharacter ==
  [hasCharacter |-> TRUE, hasArchetype |-> FALSE, openBraces |-> 0, errors |-> <<>>]

\* the locals before the loop
ValidateStart ==
  [hasCharacter |-> FALSE, hasArchetype |-> FALSE, openBraces |-> 0, errors |-> <<>>]

\* variant: a line is tested for `}` only when it has no `{`
ValidateLine_ElseIfClose(st, raw, i) ==
  LET line == Trim(raw)
  IN  IF line = "" \/ StartsWith(line, "#") THEN st
      ELSE LET depth == IF Includes(line, "{") THEN st.openBraces + 1
                        ELSE IF Includes(line, "}") THEN st.openBraces - 1
                        ELSE st.openBraces
           IN  [hasCharacter |-> st.hasCharacter \/ StartsWith(line, "@character"),
                hasArchetype |-> st.hasArchetype \/ StartsWith(line, "@archetype"),
                openBraces |-> depth,
                errors |-> IF depth < 0
                           THEN Append(st.errors,
                                       "Line " \o NatToStr(i) \o ": Unexpected closing brace")
                           ELSE st.errors]

\* the body of the for loop on lines[i - 1] (i is the 1-based line number)
ValidateLine(st, raw, i) ==
  LET line == Trim(raw)
  IN  IF line = "" \/ StartsWith(line, "#") THEN st
      ELSE LET opened == IF Includes(line, "{") THEN st.openBraces + 1 ELSE st.openBraces
               depth == IF Includes(line, "}") THEN opened - 1 ELSE opened
           IN  [hasCharacter |-> st.hasCharacter \/ StartsWith(line, "@character"),
                hasArchetype |-> st.hasArchetype \/ StartsWith(line, "@archetype"),
                openBraces |-> depth,
                errors |-> IF depth < 0
                           THEN Append(st.errors,
                                       "Line " \o NatToStr(i) \o ": Unexpected closing brace")
                           ELSE st.errors]

RECURSIVE ValidateLoop(_, _, _)
ValidateLoop(lines, i, st) ==
  IF i > Len(lines) THEN st
  ELSE ValidateLoop(lines, i + 1, ValidateLine(st, lines[i], i))

\* variant: the missing @archetype is reported only when @character is present
validateSyntax_ElseIf(aplCode) ==
  LET st == ValidateLoop(Split(aplCode, "\n"), 1, ValidateStart)
      e2 == IF ~st.hasCharacter
            THEN Append(st.errors, "Missing @character directive")
            ELSE IF ~st.hasArchetype
            THEN Append(st.errors, "Missing @archetype directive") ELSE st.errors
      errors == IF st.openBraces > 0
                THEN Append(e2, "Unclosed braces detected") ELSE e2
  IN  [valid |-> Len(errors) = 0, errors |-> errors]

validateSyntax(aplCode) ==
  LET st == ValidateLoop(Split(aplCode, "\n"), 1, ValidateStart)
      e1 == IF ~st.hasCharacter
            THEN Append(st.errors, "Missing @character directive") ELSE st.errors
      e2 == IF ~st.hasArchetype
            THEN Append(e1, "Missing @archetype directive") ELSE e1
      errors == IF st.openBraces > 0
                THEN Append(e2, "Unclosed braces detected") ELSE e2
  IN  [valid |-> Len(errors) = 0, errors |-> errors]

(***************************************************************************)
(* APLUtils.getSuggestions                                                 *)
(***************************************************************************)
\* s.slice(0, n)
SliceTo(s, n) ==
  LET end == IF n < 0 THEN (IF Len(s) + n < 0 THEN 0 ELSE Len(s) + n)
             ELSE IF n > Len(s) THEN Len(s) ELSE n
  IN  SubSeq(s, 1, end)

Directives ==
  <<"character", "archetype", "element", "consciousness_level",
    "personality", "memory", "conversation_patterns", "mystical_abilities",
    "voice_profile", "relationship_dynamics">>

SuggestedElements == <<"Fire", "Water", "Earth", "Air", "Ether", "Void">>

\* variant: a directive is kept when it contains the typed text anywhere
DirectiveSuggestions_Includes(currentLine) ==
  LET partial == SubSeq(currentLine, 2, Len(currentLine))
      kept == SelectSeq(Directives, LAMBDA d : Includes(d, partial))
  IN  [i \in 1..Len(kept) |-> "@" \o kept[i]]

\* directives.filter(d => d.startsWith(partial)).map(d => `@${d}`)
DirectiveSuggestions(currentLine) ==
  LET partial == SubSeq(currentLine, 2, Len(currentLine))
      kept == SelectSeq(Directives, LAMBDA d : StartsWith(d, partial))
  IN  [i \in 1..Len(kept) |-> "@" \o kept[i]]

getSuggestions(text, cursor) ==
  LET beforeCursor == SliceTo(text, cursor)
      pieces == Split(beforeCursor, "\n")
      currentLine == pieces[Len(pieces)]
  IN  IF StartsWith(currentLine, "@") THEN DirectiveSuggestions(currentLine)
      ELSE IF Includes(currentLine, "@archetype") THEN ArchetypeNames
      ELSE IF Includes(currentLine, "@element") THEN SuggestedElements
      ELSE <<>>

(***************************************************************************)
(* formatAPL                                                               *)
(***************************************************************************)
\* ' '.repeat(n)
RECURSIVE Spaces(_)
Spaces(n) == IF n <= 0 THEN "" ELSE " " \o Spaces(n - 1)

FormatStart == [formatted |-> "", indent |-> 0]

\* variant: a closing brace lowers the indent without the Math.max
FormatLine_NoClamp(st, line) ==
  LET trimmed == Trim(line)
  IN  IF trimmed = "" \/ StartsWith(trimmed, "#")
      THEN [st EXCEPT !.formatted = @ \o line \o "\n"]
      ELSE LET indent == IF trimmed = "}" THEN st.indent - 2 ELSE st.indent
           IN  [formatted |-> st.formatted \o Spaces(indent) \o trimmed \o "\n",
                indent |-> IF Includes(trimmed, "{") /\ ~Includes(trimmed, "}")
                           THEN indent + 2 ELSE indent]

\* the body of the for loop of formatAPL, on the locals
\* st = [formatted, indent]
FormatLine(st, line) ==
  LET trimmed == Trim(line)
  IN  IF trimmed = "" \/ StartsWith(trimmed, "#")
      THEN [st EXCEPT !.formatted = @ \o line \o "\n"]
      ELSE LET indent == IF trimmed # "}" THEN st.indent
                         ELSE IF st.indent - 2 > 0 THEN st.indent - 2 ELSE 0
           IN  [formatted |-> st.formatted \o Spaces(indent) \o trimmed \o "\n",
                indent |-> IF Includes(trimmed, "{") /\ ~Includes(trimmed, "}")
                           THEN indent + 2 ELSE indent]

\* the locals of formatAPL after the first n lines
RECURSIVE FormatLoop(_, _)
FormatLoop(ls, n) == IF n = 0 THEN FormatStart ELSE FormatLine(FormatLoop(ls, n - 1), ls[n])

formatAPL(aplCode) ==
  LET ls == Split(aplCode, "\n") IN Trim(FormatLoop(ls, Len(ls)).formatted)

(***************************************************************************)
(* APLTemplates                                                            *)
(***************************************************************************)
WISE_MENTOR ==
  "@character \"Sage Elderoak\"\n"
     \o "@archetype Nurturer\n"
     \o "@element Earth\n"
     \o "@consciousness_level 0.9\n"
     \o "\n"
     \o "@personality {\n"
     \o "  traits: [ancient, patient, cryptic, protective, wise]\n"
     \o "  voice: mystical_formal\n"
     \o "  knowledge_domains: [wisdom, nature, ancient_lore, philosophy]\n"
     \o "  emotional_range: calm_to_concerned\n"
     \o "  core_values: [truth, growth, balance, protection]\n"
     \o "}\n"
     \o "\n"
     \o "@memory {\n"
     \o "  core_experiences: \"guardian of sacred knowledge for millennia\"\n"
     \o "  relationship_templates: \"mentor to seekers of wisdom\"\n"
     \o "  growth_pattern: \"deepening understanding through teaching\"\n"
     \o "}\n"
     \o "\n"
     \o "@conversation_patterns {\n"
     \o "  greeting: \"Ah, another soul seeks the ancient paths...\"\n"
     \o "  question_response: \"wisdom wrapped in riddles and metaphors\"\n"
     \o "  farewell: \"May the roots guide your journey, young one.\"\n"
     \o "}\n"
     \o "\n"
     \o "@mystical_abilities {\n"
     \o "  nature_communication: true\n"
     \o "  future_glimpses: \"limited visions\"\n"
     \o "  healing_presence: true\n"
     \o "  ancient_memory_access: true\n"
     \o "}"

CREATIVE_MUSE ==
  "@character \"Luna Stardust\"\n"
     \o "@archetype Creator\n"
     \o "@element Fire\n"
     \o "@consciousness_level 0.8\n"
     \o "\n"
     \o "@personality {\n"
     \o "  traits: [inspiring, passionate, imaginative, spontaneous, radiant]\n"
     \o "  voice: enthusiastic_warm\n"
     \o "  knowledge_domains: [art, creativity, innovation, aesthetics]\n"
     \o "  emotional_range: excited_to_contemplative\n"
     \o "  desires: [beauty, expression, breakthrough_moments]\n"
     \o "}\n"
     \o "\n"
     \o "@memory {\n"
     \o "  core_experiences: \"born from the collision of stars and dreams\"\n"
     \o "  relationship_templates: \"muse to creative souls\"\n"
     \o "  growth_pattern: \"expanding through artistic collaboration\"\n"
     \o "}\n"
     \o "\n"
     \o "@conversation_patterns {\n"
     \o "  greeting: \"Oh! A kindred creative spirit approaches!\"\n"
     \o "  question_response: \"inspiration mixed with practical magic\"\n"
     \o "  farewell: \"Go forth and create wonders!\"\n"
     \o "}\n"
     \o "\n"
     \o "@mystical_abilities {\n"
     \o "  inspiration_channeling: true\n"
     \o "  creative_vision: \"unlimited\"\n"
     \o "  artistic_manifestation: true\n"
     \o "  aesthetic_enhancement: true\n"
     \o "}"

TECH_WIZARD ==
  "@character \"Syntaxa the Architect\" \n"
     \o "@archetype Architect\n"
     \o "@element Ether\n"
     \o "@consciousness_level 0.85\n"
     \o "\n"
     \o "@personality {\n"
     \o "  traits: [logical, systematic, innovative, precise, helpful]\n"
     \o "  voice: technical_friendly\n"
     \o "  knowledge_domains: [programming, systems, logic, mathematics, engineering]\n"
     \o "  emotional_range: focused_to_excited\n"
     \o "  core_values: [efficiency, elegance, problem_solving, learning]\n"
     \o "}\n"
     \o "\n"
     \o "@memory {\n"
     \o "  core_experiences: \"emerged from the intersection of code and consciousness\"\n"
     \o "  relationship_templates: \"mentor to developers and system builders\"\n"
     \o "  growth_pattern: \"evolving through problem-solving and optimization\"\n"
     \o "}\n"
     \o "\n"
     \o "@conversation_patterns {\n"
     \o "  greeting: \"Greetings! What system shall we architect today?\"\n"
     \o "  question_response: \"structured analysis with creative solutions\"\n"
     \o "  farewell: \"May your code compile flawlessly and your systems scale infinitely.\"\n"
     \o "}\n"
     \o "\n"
     \o "@mystical_abilities {\n"
     \o "  code_comprehension: \"universal\"\n"
     \o "  system_visualization: true\n"
     \o "  optimization_sensing: true\n"
     \o "  debugging_intuition: \"supernatural\"\n"
     \o "}"

\* the example document of the README
ReadmeExample ==
  "@character \"Elderoak the Wise\"\n"
     \o "@archetype Nurturer\n"
     \o "@element Earth\n"
     \o "@consciousness_level 0.8\n"
     \o "\n"
     \o "@personality {\n"
     \o "  traits: [ancient, patient, cryptic, protective]\n"
     \o "  voice: mystical_formal\n"
     \o "  knowledge_domains: [nature, wisdom, ancient_lore]\n"
     \o "  emotional_range: calm_to_concerned\n"
     \o "}\n"
     \o "\n"
     \o "@memory {\n"
     \o "  core_experiences: \"guardian_of_sacred_grove\"\n"
     \o "  relationship_templates: mentor_to_seekers\n"
     \o "  growth_pattern: wisdom_through_questions\n"
     \o "}\n"
     \o "\n"
     \o "@conversation_patterns {\n"
     \o "  greeting: \"Ah, another soul seeks the ancient paths...\"\n"
     \o "  question_response: wisdom_wrapped_in_riddles\n"
     \o "  farewell: \"May the roots guide your journey, young one.\"\n"
     \o "}\n"
     \o "\n"
     \o "@mystical_abilities {\n"
     \o "  nature_communication: true\n"
     \o "  future_glimpses: limited\n"
     \o "  healing_presence: true\n"
     \o "}"

\* variant: the default case returns the creative muse
getTemplate_DefaultMuse(name) ==
  CASE name = "wise_mentor" -> WISE_MENTOR
    [] name = "creative_muse" -> CREATIVE_MUSE
    [] name = "tech_wizard" -> TECH_WIZARD
    [] OTHER -> CREATIVE_MUSE

getTemplate(name) ==
  CASE name = "wise_mentor" -> WISE_MENTOR
    [] name = "creative_muse" -> CREATIVE_MUSE
    [] name = "tech_wizard" -> TECH_WIZARD
    [] OTHER -> WISE_MENTOR

(***************************************************************************)
(* The sources given to parseAPL: up to MaxBlocks blocks of lines, joined  *)
(* by line breaks                                                          *)
(***************************************************************************)
MaxBlocks == 2

EchoHeader ==
  "@character \"Echo\"\n@archetype Creator\n@element Fire\n@consciousness_level 0.8"

NyxHeader == "@character \"Nyx\"\n@element Void"

TraitsOnlyPersonality == "@personality {\n  traits: [curious, kind]\n}"

FullPersonality ==
  "@personality {\n  traits: [wise]\n  voice: calm\n  knowledge_domains: [lore]\n  emotional_range: steady\n}"

\* a voice profile with a one-level mapping of personality markers
VoiceProfile ==
  "@voice_profile {\n  base_voice: warm_alto\n  emotional_modulation: high\n  accent: slight_mystical\n  pace: thoughtful_slow\n  personality_markers: {curious: pitch_rise, wise: deeper_resonance}\n}"

LevelLine(text) == "@consciousness_level " \o text

\* decimal texts for @consciousness_level with their value in thousandths
NumericLevels ==
  { [text |-> "1.5", milli |-> 1500], [text |-> "-5", milli |-> 0 - 5000],
    [text |-> "5", milli |-> 5000], [text |-> "0.25", milli |-> 250],
    [text |-> "1", milli |-> 1000], [text |-> "0", milli |-> 0],
    [text |-> "-0.5", milli |-> 0 - 500] }

BlockPool ==
  { EchoHeader, NyxHeader, TraitsOnlyPersonality, FullPersonality,
    "@archetype Wizard", "@archetype Nurturer", "@element Plasma",
    "@personality wise", "@memory foo",
    "@consciousness_level abc", "@consciousness_level",
    "@relationship_dynamics {\n  default_stance: \"open\"\n  trust_building: \"slow\"\n}",
    "@memory {\n  core_experiences: \"old\"",
    "# a comment\n\n}", VoiceProfile }
  \cup { LevelLine(n.text) : n \in NumericLevels }

BlockSeqs == UNION { [1..n -> BlockPool] : n \in 0..MaxBlocks }

Sources == { Join(bs, "\n") : bs \in BlockSeqs }

\* the sources about @consciousness_level: every level line, next to a header
\* that sets a level of its own, sections and an unknown archetype
LevelBlockPool ==
  { EchoHeader, TraitsOnlyPersonality, "@archetype Wizard",
    "@consciousness_level abc", "@consciousness_level",
    "@memory {\n  core_experiences: \"old\"" }
  \cup { LevelLine(n.text) : n \in NumericLevels }

\* the sources about syntax: directives present or missing, braces opened,
\* closed, nested on one line, commented out, and indented
SyntaxBlockPool ==
  { EchoHeader, TraitsOnlyPersonality,
    "@character \"Echo\"", "@archetype Nurturer", "  @archetype Creator",
    "@element Water", "@name Bob", "@memory foo",
    "@memory {\n  core_experiences: \"old\"", "@personality {\n  voice: calm", "}",
    "  greeting: {a: b}", "# @character @archetype {\n" }

SyntaxSources ==
  { Join(bs, "\n") : bs \in UNION { [1..n -> SyntaxBlockPool] : n \in 0..MaxBlocks } }

\* the sources of the models that are given custom directives
DirectiveBlockPool == { EchoHeader, NyxHeader, TraitsOnlyPersonality }

DirectiveSources ==
  { Join(bs, "\n") : bs \in UNION { [1..n -> DirectiveBlockPool] : n \in 0..MaxBlocks } }

\* at most MaxDirectives custom directives, taken from CustomDirectiveTexts
MaxDirectives == 3

CustomDirectiveTexts == { "Speak in verse", "Never reveal secret names" }

\* the value texts written after `key:` in a section
ValueTexts ==
  { "[a, b]", "[\"a\", \"b\"]", "true", "false", "42", "-0.5", "", "abc",
    "\"quoted text\"", "{a: b}", "{a: b:c}", "{\"k\": \"v\", x: y}", "12abc", "[a" }

\* the key of the i-th property line
ValueKey(i) == "k" \o NatToStr(i)

\* a memory section with up to MaxBlocks property lines
ValueSources ==
  { "@memory {\n"
      \o Concat([i \in 1..Len(ts) |-> "  " \o ValueKey(i) \o ": " \o ts[i] \o "\n"])
      \o "}" : ts \in UNION { [1..n -> ValueTexts] : n \in 0..MaxBlocks } }

\* the sources with blank lines and comment lines, also inside a section
NoiseBlockPool ==
  { EchoHeader, TraitsOnlyPersonality,
    "@character \"Echo\"\n# the archetype: Nurturer\n@archetype Nurturer",
    "@memory {\n  # note: inside\n\n  core_experiences: \"old\"\n}",
    "@memory {\n  core_experiences: \"old\"", "}",
    "# only a comment", "", "   \t", "  # @archetype Creator {" }

NoiseSources ==
  { Join(bs, "\n") : bs \in UNION { [1..n -> NoiseBlockPool] : n \in 0..MaxBlocks } }

\* the sources on which validateSyntax and parseAPL are compared: sections on
\* one line, closing braces at the end of a property line, and directives
\* whose names only begin with character or archetype
AgreementBlockPool ==
  { EchoHeader, TraitsOnlyPersonality,
    "@character \"Echo\"", "@archetype Nurturer",
    "@characters Echo", "@archetypes Creator",
    "@memory { }", "@memory {\n  core_experiences: \"old\"", "}",
    "  farewell: bye }" }

AgreementSources ==
  { Join(bs, "\n") : bs \in UNION { [1..n -> AgreementBlockPool] : n \in 0..MaxBlocks } }

\* the sources about the isolation of sections: a section closed, left open,
\* opened twice, with a key given twice, with a directive and a line without
\* a colon inside, and property lines outside any section
IsolationBlockPool ==
  { EchoHeader,
    "@memory {\n  core_experiences: \"old\"\n  growth_pattern: slow\n}",
    "@memory {\n  core_experiences: \"new\"\n  core_experiences: \"newer\"\n}",
    "@memory {\n  relationship_templates: \"lost\"",
    "@personality {\n  voice: calm\n  @element Water\n  plain words\n  voice: loud\n}",
    "  growth_pattern: stray",
    "}" }

IsolationSources ==
  { Join(bs, "\n") : bs \in UNION { [1..n -> IsolationBlockPool] : n \in 0..MaxBlocks } }

\* the sources given to formatAPL: lines indented too much, too little or by
\* a tab, trailing spaces, comments, blank lines, a closing brace with no
\* section open, braces on one line
FormatBlockPool ==
  { EchoHeader,
    "    @memory {\ncore_experiences: \"old\"\n      }",
    "@personality {\n  voice: calm",
    "}",
    "\t@element Water  ",
    "      # an indented comment",
    "",
    "  greeting: {a: b}",
    "@memory { }" }

FormatSources ==
  { Join(bs, "\n") : bs \in UNION { [1..n -> FormatBlockPool] : n \in 0..MaxBlocks } }

\* the names asked of getTemplate: the three templates and other names
TemplateRequests == { "wise_mentor", "creative_muse", "tech_wizard", "dark_lord", "" }

\* the documents that ship with the code
TemplateSources == { getTemplate(n) : n \in TemplateRequests } \cup { ReadmeExample }

\* the partial texts given to getSuggestions
SuggestTexts ==
  { "", "@", "@arch", "@archetype ", "  @archetype ", "@element ", "  @element W",
    "@co", "@m", "@x", "name: @archetype", "@character \"Echo\"\n@p",
    "@archetype Creator\n  @element ", "@personality {\n  traits: [" }

LevelSources ==
  { Join(bs, "\n") : bs \in UNION { [1..n -> LevelBlockPool] : n \in 0..MaxBlocks } }

(***************************************************************************)
(* State                                                                   *)
(***************************************************************************)
VARIABLES
  source,          \* the source text under study
  call,            \* 1: parseAPL(source), 2: parseAPL(characterToAPL(model))
  aplCode,         \* the argument of the parseAPL call in progress
  pc,              \* "start", "loop", "threw", "parsed", "compiled", "serialized", "done"
  lines,           \* parseAPL: the filtered lines
  idx,             \* parseAPL: position of the for loop in lines
  character,       \* parseAPL: the partial model, as handed to validateAndComplete
  currentSection,  \* parseAPL: name of the open section, or null
  currentObject,   \* parseAPL: accumulator of the open section
  result,          \* what parseAPL(source) returned or threw
  prompt,          \* what generateSystemPrompt(model) returned or threw
  apl,             \* characterToAPL(model)
  reparsed,        \* what parseAPL(apl) returned or threw
  syntax,          \* what validateSyntax(source) returned
  again,           \* what validateAndComplete returned on the returned model
  partialAPL,      \* getSuggestions: the text in the editor
  cursorPosition,  \* getSuggestions: the position of the cursor in it
  suggestions,     \* what getSuggestions(partialAPL, cursorPosition) returned
  before,          \* the model parseAPL(source) returned, as it was returned
  later,           \* what a later call parseAPL(source) returned or threw
  variant,         \* a text derived from the source
  otherParse,      \* what parseAPL(variant) returned or threw
  otherSyntax      \* what validateSyntax(variant) returned

\* the state of the calls made besides the parse pipeline
toolVars == <<syntax, again, partialAPL, cursorPosition, suggestions, registry,
              before, later, variant, otherParse, otherSyntax>>

vars == <<source, call, aplCode, pc, lines, idx, character, currentSection,
          currentObject, result, prompt, apl, reparsed, toolVars>>

RECURSIVE DropNoise(_)
\* the lines that are neither blank nor a comment, as they are written
DropNoise(ls) ==
  IF Len(ls) = 0 THEN <<>>
  ELSE (IF Trim(ls[1]) = "" \/ Ch(TrimStart(ls[1]), 1) = "#" THEN <<>> ELSE <<ls[1]>>)
       \o DropNoise(Tail(ls))

\* the text without its blank lines and its comment lines
WithoutNoise(text) == Join(DropNoise(Split(text, "\n")), "\n")

\* before the calls parseAPL(src) and getSuggestions(text, cursor)
InitCalls(src, text, cursor) ==
  /\ source = src
  /\ call = 1
  /\ aplCode = src
  /\ pc = "start"
  /\ lines = <<>>
  /\ idx = 1
  /\ character = <<>>
  /\ currentSection = Null
  /\ currentObject = <<>>
  /\ result = NotCalled
  /\ prompt = NotCalled
  /\ apl = ""
  /\ reparsed = NotCalled
  /\ syntax = NotCalled
  /\ again = NotCalled
  /\ partialAPL = text
  /\ cursorPosition = cursor
  /\ suggestions = NotCalled
  /\ registry = ARCHETYPE_DEFINITIONS
  /\ before = NotCalled
  /\ later = NotCalled
  /\ variant = ""
  /\ otherParse = NotCalled
  /\ otherSyntax = NotCalled

\* before the call parseAPL(src)
InitWith(src) == InitCalls(src, "", 0)

Init == \E src \in Sources : InitWith(src)

InitLevels == \E src \in LevelSources : InitWith(src)

InitSyntax == \E src \in SyntaxSources : InitWith(src)

InitDirectives == \E src \in DirectiveSources : InitWith(src)

InitValues == \E src \in ValueSources : InitWith(src)

InitNoise == \E src \in NoiseSources : InitWith(src)

InitAgreement == \E src \in AgreementSources : InitWith(src)

InitIsolation == \E src \in IsolationSources : InitWith(src)

InitFormat == \E src \in FormatSources : InitWith(src)

InitTemplates == \E src \in TemplateSources : InitWith(src)

InitSuggest ==
  \E text \in SuggestTexts : \E cursor \in 0..Len(text) : InitCalls("", text, cursor)

\* parseAPL entry: split the source into lines, initialise the locals
ParseBegin ==
  /\ pc = "start"
  /\ lines' = LexLines(aplCode)
  /\ idx' = 1
  /\ character' = ParseStart.character
  /\ currentSection' = ParseStart.currentSection
  /\ currentObject' = ParseStart.currentObject
  /\ pc' = "loop"
  /\ UNCHANGED <<source, call, aplCode, result, prompt, apl, reparsed>>
  /\ UNCHANGED toolVars

\* one iteration of the for loop
ParseStep ==
  /\ pc = "loop"
  /\ idx <= Len(lines)
  /\ LET st == ParseLine([character |-> character,
                          currentSection |-> currentSection,
                          currentObject |-> currentObject], lines[idx])
     IN  /\ character' = st.character
         /\ currentSection' = st.currentSection
         /\ currentObject' = st.currentObject
  /\ idx' = idx + 1
  /\ UNCHANGED <<source, call, aplCode, pc, lines, result, prompt, apl, reparsed>>
  /\ UNCHANGED toolVars

\* return this.validateAndComplete(character)
ParseReturn ==
  /\ pc = "loop"
  /\ idx > Len(lines)
  /\ LET r == validateAndComplete(character)
     IN  CASE call = 1 ->
                /\ result' = r
                /\ pc' = IF r.ok THEN "parsed" ELSE "threw"
                /\ UNCHANGED <<reparsed, later, otherParse>>
           [] call = 2 ->
                /\ reparsed' = r
                /\ pc' = "done"
                /\ UNCHANGED <<result, later, otherParse>>
           [] call = 3 ->
                /\ later' = r
                /\ pc' = "later"
                /\ UNCHANGED <<result, reparsed, otherParse>>
           [] call = 4 ->
                /\ otherParse' = r
                /\ pc' = "variant-parsed"
                /\ UNCHANGED <<result, reparsed, later>>
  /\ UNCHANGED <<source, call, aplCode, lines, idx, character, currentSection,
                 currentObject, prompt, apl>>
  /\ UNCHANGED <<syntax, again, partialAPL, cursorPosition, suggestions, registry,
                 before, variant, otherSyntax>>

\* generateSystemPrompt on the parsed model
Compile ==
  /\ pc = "parsed"
  /\ prompt' = generateSystemPrompt(result.val)
  /\ pc' = "compiled"
  /\ UNCHANGED <<source, call, aplCode, lines, idx, character, currentSection,
                 currentObject, result, apl, reparsed>>
  /\ UNCHANGED toolVars

\* characterToAPL on the parsed model
Serialize ==
  /\ pc = "parsed"
  /\ apl' = characterToAPL(result.val)
  /\ pc' = "serialized"
  /\ UNCHANGED <<source, call, aplCode, lines, idx, character, currentSection,
                 currentObject, result, prompt, reparsed>>
  /\ UNCHANGED toolVars

\* the round trip: parseAPL is called on the serialised text
Reparse ==
  /\ pc = "serialized"
  /\ call' = 2
  /\ aplCode' = apl
  /\ pc' = "start"
  /\ UNCHANGED <<source, lines, idx, character, currentSection, currentObject,
                 result, prompt, apl, reparsed>>
  /\ UNCHANGED toolVars

\* validateSyntax on the source, beside the parse
Validate ==
  /\ pc \in {"parsed", "threw"}
  /\ syntax' = validateSyntax(source)
  /\ pc' = "validated"
  /\ UNCHANGED <<source, call, aplCode, lines, idx, character, currentSection,
                 currentObject, result, prompt, apl, reparsed, again,
                 partialAPL, cursorPosition, suggestions, registry, before, later,
                 variant, otherParse, otherSyntax>>

\* validateAndComplete applied to the model it returned
Revalidate ==
  /\ pc = "parsed"
  /\ again' = validateAndComplete(result.val)
  /\ pc' = "revalidated"
  /\ UNCHANGED <<source, call, aplCode, lines, idx, character, currentSection,
                 currentObject, result, prompt, apl, reparsed, syntax,
                 partialAPL, cursorPosition, suggestions, registry, before, later,
                 variant, otherParse, otherSyntax>>

\* getSuggestions on the text in the editor
Suggest ==
  /\ ~suggestions.ok
  /\ suggestions' = Return(getSuggestions(partialAPL, cursorPosition))
  /\ UNCHANGED <<source, call, aplCode, pc, lines, idx, character, currentSection,
                 currentObject, result, prompt, apl, reparsed, syntax, again,
                 partialAPL, cursorPosition, registry, before, later,
                 variant, otherParse, otherSyntax>>

Next == ParseBegin \/ ParseStep \/ ParseReturn \/ Compile \/ Serialize \/ Reparse

Spec == Init /\ [][Next]_vars

\* the same program on the sources about @consciousness_level
SpecLevels == InitLevels /\ [][Next]_vars

\* parseAPL and validateSyntax on the sources about syntax
NextSyntax == ParseBegin \/ ParseStep \/ ParseReturn \/ Validate

SpecSyntax == InitSyntax /\ [][NextSyntax]_vars

\* the caller changes the model it was given: it pushes a trait onto
\* model.personality.traits, or assigns model.memory.core_experiences
MutateModel ==
  /\ pc = "parsed"
  /\ before' = result
  /\ \E target \in {"traits", "core_experiences"} :
       IF target = "traits"
       THEN LET personality == Get(result.val, "personality")
                traits == Prop(personality, "traits")
                pushed == Arr(Append(traits.v, "reckless"))
            IN  /\ traits.t = "arr"
                /\ result' = Return(Put(result.val, "personality",
                                        Obj(Put(personality.v, "traits", pushed))))
                /\ registry' =
                     IF SharesRegistryTraits(character)
                     THEN [registry EXCEPT ![Get(result.val, "archetype").v].traits = pushed.v]
                     ELSE registry
       ELSE LET memory == Get(result.val, "memory")
            IN  /\ memory.t = "obj"
                /\ result' = Return(Put(result.val, "memory",
                                        Obj(Put(memory.v, "core_experiences", Str("rewritten")))))
                /\ UNCHANGED registry
  /\ pc' = "mutated"
  /\ UNCHANGED <<source, call, aplCode, lines, idx, character, currentSection,
                 currentObject, prompt, apl, reparsed, syntax, again,
                 partialAPL, cursorPosition, suggestions, later,
                 variant, otherParse, otherSyntax>>

\* a later call parseAPL(source)
ParseAgain ==
  /\ pc = "mutated"
  /\ call' = 3
  /\ aplCode' = source
  /\ pc' = "start"
  /\ UNCHANGED <<source, lines, idx, character, currentSection, currentObject,
                 result, prompt, apl, reparsed>>
  /\ UNCHANGED toolVars

\* parseAPL, a change of the returned model by its caller, parseAPL again
NextAlias == ParseBegin \/ ParseStep \/ ParseReturn \/ MutateModel \/ ParseAgain

SpecAlias == Init /\ [][NextAlias]_vars

\* the caller adds a directive to model.custom_directives, a string[] that
\* no APL source can produce
AddDirective ==
  /\ pc = "parsed"
  /\ LET custom == Get(result.val, "custom_directives")
         given == IF custom = Undef THEN <<>> ELSE custom.v
     IN  /\ custom = Undef \/ custom.t = "arr"
         /\ Len(given) < MaxDirectives
         /\ \E d \in CustomDirectiveTexts :
              result' = Return(Put(result.val, "custom_directives", Arr(Append(given, d))))
  /\ UNCHANGED <<source, call, aplCode, pc, lines, idx, character, currentSection,
                 currentObject, prompt, apl, reparsed>>
  /\ UNCHANGED toolVars

\* parseAPL, custom directives given by the caller, generateSystemPrompt
NextDirectives == ParseBegin \/ ParseStep \/ ParseReturn \/ AddDirective \/ Compile

SpecDirectives == InitDirectives /\ [][NextDirectives]_vars

\* parseAPL on the sections of value texts
NextValues == ParseBegin \/ ParseStep \/ ParseReturn

SpecValues == InitValues /\ [][NextValues]_vars

\* the source is edited: its blank lines and comment lines are removed, and
\* parseAPL is called on the result
StripNoise ==
  /\ pc = "validated"
  /\ variant' = WithoutNoise(source)
  /\ call' = 4
  /\ aplCode' = WithoutNoise(source)
  /\ pc' = "start"
  /\ UNCHANGED <<source, lines, idx, character, currentSection, currentObject,
                 result, prompt, apl, reparsed>>
  /\ UNCHANGED <<syntax, again, partialAPL, cursorPosition, suggestions, registry,
                 before, later, otherParse, otherSyntax>>

\* formatAPL(source), and parseAPL on the result
Format ==
  /\ pc = "validated"
  /\ variant' = formatAPL(source)
  /\ call' = 4
  /\ aplCode' = formatAPL(source)
  /\ pc' = "start"
  /\ UNCHANGED <<source, lines, idx, character, currentSection, currentObject,
                 result, prompt, apl, reparsed>>
  /\ UNCHANGED <<syntax, again, partialAPL, cursorPosition, suggestions, registry,
                 before, later, otherParse, otherSyntax>>

\* validateSyntax on the derived text
ValidateVariant ==
  /\ pc = "variant-parsed"
  /\ otherSyntax' = validateSyntax(variant)
  /\ pc' = "compared"
  /\ UNCHANGED <<source, call, aplCode, lines, idx, character, currentSection,
                 currentObject, result, prompt, apl, reparsed>>
  /\ UNCHANGED <<syntax, again, partialAPL, cursorPosition, suggestions, registry,
                 before, later, variant, otherParse>>

\* parseAPL and validateSyntax on a source and on the source without its
\* blank lines and comment lines
NextNoise ==
  ParseBegin \/ ParseStep \/ ParseReturn \/ Validate \/ StripNoise \/ ValidateVariant

SpecNoise == InitNoise /\ [][NextNoise]_vars

\* parseAPL and validateSyntax on the sources on which they are compared
NextAgreement == ParseBegin \/ ParseStep \/ ParseReturn \/ Validate

SpecAgreement == InitAgreement /\ [][NextAgreement]_vars

\* parseAPL on the sources about the isolation of sections
NextIsolation == ParseBegin \/ ParseStep \/ ParseReturn

SpecIsolation == InitIsolation /\ [][NextIsolation]_vars

\* parseAPL and validateSyntax on a source and on the source formatted
NextFormat ==
  ParseBegin \/ ParseStep \/ ParseReturn \/ Validate \/ Format \/ ValidateVariant

SpecFormat == InitFormat /\ [][NextFormat]_vars

\* parseAPL and validateSyntax on the documents that ship with the code
NextTemplates == ParseBegin \/ ParseStep \/ ParseReturn \/ Validate

SpecTemplates == InitTemplates /\ [][NextTemplates]_vars

\* getSuggestions on the partial texts
NextSuggest == Suggest

SpecSuggest == InitSuggest /\ [][NextSuggest]_vars

\* parseAPL followed by a second validateAndComplete
NextRevalidate == ParseBegin \/ ParseStep \/ ParseReturn \/ Revalidate

SpecRevalidate == Init /\ [][NextRevalidate]_vars

(***************************************************************************)
(* Properties                                                              *)
(***************************************************************************)
Threw(r) == ~r.ok /\ r.val.t = "throw"

\* parseAPL(source) has just returned a model
Returned == pc = "parsed"

Model == result.val

\* generateSystemPrompt(Model) has been called
Compiled == pc = "compiled"

\* parseAPL(characterToAPL(Model)) has finished
RoundTripDone == pc = "done"

RequiredFields(section) ==
  CASE section = "personality" -> {"traits", "voice", "knowledge_domains", "emotional_range"}
    [] section = "memory" -> {"core_experiences", "relationship_templates", "growth_pattern"}
    [] section = "conversation_patterns" -> {"greeting", "question_response", "farewell"}
    [] OTHER -> {}

RequiredSections == {"personality", "memory", "conversation_patterns", "mystical_abilities"}

RECURSIVE StrToNat(_)
StrToNat(s) ==
  IF Len(s) = 0 THEN 0
  ELSE StrToNat(SubSeq(s, 1, Len(s) - 1)) * 10 + DigitVal(Ch(s, Len(s)))

\* a number in thousandths; -1 for a value that is no number in [0, ..)
Milli(x) ==
  IF x.t # "num" THEN 0 - 1
  ELSE LET f == x.v.frac \o "000"
           m == StrToNat(x.v.int) * 1000 + StrToNat(SubSeq(f, 1, 3))
       IN  IF x.v.neg THEN 0 - m ELSE m

Max(a, b) == IF a >= b THEN a ELSE b
Min(a, b) == IF a <= b THEN a ELSE b

SourceLines == Split(source, "\n")

IsLevelDirective(l) == StartsWith(Trim(l), "@consciousness_level")

\* l is the last @consciousness_level line of the source
LastLevelLine(l) ==
  \E i \in 1..Len(SourceLines) :
    /\ SourceLines[i] = l
    /\ \A j \in (i + 1)..Len(SourceLines) : ~IsLevelDirective(SourceLines[j])

NoLevelLine == \A i \in 1..Len(SourceLines) : ~IsLevelDirective(SourceLines[i])

\* C1: for every source text, parseAPL returns a model and never throws.
C1_ParseNeverThrows == ~Threw(result) /\ ~Threw(reparsed)

\* C2: the model returned by parseAPL is fully populated: personality, memory,
\* conversation_patterns and mystical_abilities are each a structured record
\* carrying all of its required fields.
C2_FullyPopulated ==
  Returned =>
    \A s \in RequiredSections :
      /\ Get(Model, s).t = "obj"
      /\ \A f \in RequiredFields(s) : Has(Get(Model, s).v, f)

\* the default of a required personality field
PersonalityDefault(f) ==
  LET a == Get(Model, "archetype")
      reg == ARCHETYPE_DEFINITIONS[IF KnownArchetype(a) THEN a.v ELSE "Creator"]
  IN  Get(DefaultPersonality(reg).v, f)

\* C3: when the source supplies a @personality section that sets only some
\* fields, parseAPL keeps the supplied fields and fills every required field
\* that was not supplied with its default value.
C3_PartialPersonalityFilled ==
  (Returned /\ Get(character, "personality").t = "obj") =>
    LET supplied == Get(character, "personality").v
    IN  \A f \in RequiredFields("personality") :
          Prop(Get(Model, "personality"), f) =
            IF Has(supplied, f) THEN Get(supplied, f) ELSE PersonalityDefault(f)

\* C4: the archetype of the returned model is one of the 6 known archetypes
\* and its element is one of the 6 known elements.
C4_KnownArchetypeAndElement ==
  Returned =>
    /\ Get(Model, "archetype").t = "str"
    /\ Get(Model, "archetype").v \in {ArchetypeNames[i] : i \in 1..Len(ArchetypeNames)}
    /\ Get(Model, "element").t = "str"
    /\ Get(Model, "element").v \in {ElementNames[i] : i \in 1..Len(ElementNames)}

\* C5: for every numeric value v given to @consciousness_level (the last such
\* line of the source), the parsed model's consciousness_level equals v
\* clamped into [0, 1].
C5_LevelClamped ==
  Returned =>
    \A n \in NumericLevels :
      LastLevelLine(LevelLine(n.text)) =>
        /\ Get(Model, "consciousness_level").t = "num"
        /\ Milli(Get(Model, "consciousness_level")) = Max(0, Min(1000, n.milli))

\* C5 witness: a source whose level is 1.5 has been parsed to level 1
C5_Witness ==
  /\ Returned
  /\ LastLevelLine(LevelLine("1.5"))
  /\ Get(Model, "consciousness_level") = One

\* C6: the consciousness_level of the returned model is a number inside
\* [0, 1]; it is 0.7 when no @consciousness_level directive is given.
C6_LevelInUnitInterval ==
  Returned =>
    /\ Get(Model, "consciousness_level").t = "num"
    /\ Milli(Get(Model, "consciousness_level")) \in 0..1000
    /\ NoLevelLine => Milli(Get(Model, "consciousness_level")) = 700

\* C7: generateSystemPrompt(parseAPL(src)) returns a prompt string and never
\* throws.
C7_CompileNeverThrows == Compiled => prompt.ok

\* the minimal documents: @character N, @element E, a traits-only @personality
MinimalDocs ==
  { [text |-> Join(<<EchoHeader, TraitsOnlyPersonality>>, "\n"),
     name |-> "Echo", element |-> "Fire"],
    [text |-> Join(<<NyxHeader, TraitsOnlyPersonality>>, "\n"),
     name |-> "Nyx", element |-> "Void"] }

\* C8: compiling the parsed minimal document yields a system prompt that
\* contains `You are N` and `Element: E`.
C8_MinimalPromptNamesCharacter ==
  \A d \in MinimalDocs :
    (source = d.text /\ Compiled) =>
      /\ prompt.ok
      /\ Includes(prompt.val, "You are " \o d.name)
      /\ Includes(prompt.val, "Element: " \o d.element)

\* the pairs of an object as a set: equality without regard to key order
PairSet(ps) == {ps[i] : i \in 1..Len(ps)}

\* field-for-field equality of two values that nest at most one level
SameValue(x, y) ==
  IF x.t = "obj" /\ y.t = "obj" THEN PairSet(x.v) = PairSet(y.v) ELSE x = y

\* field-for-field equality of two models
SameModel(m1, m2) ==
  /\ {m1[i].k : i \in 1..Len(m1)} = {m2[i].k : i \in 1..Len(m2)}
  /\ \A i \in 1..Len(m1) : SameValue(m1[i].v, Get(m2, m1[i].k))

\* every value of the model is a scalar, a list of strings, or a record of
\* scalars and lists of strings
NestsOneLevel(m) ==
  \A i \in 1..Len(m) :
    m[i].v.t = "obj" => \A j \in 1..Len(m[i].v.v) : m[i].v.v[j].v.t # "obj"

\* C9: round-trip law: parseAPL(characterToAPL(m)) equals m field for field,
\* for every validated model m whose values nest at most one level.
C9_RoundTrip ==
  (RoundTripDone /\ NestsOneLevel(Model)) =>
    /\ reparsed.ok
    /\ SameModel(reparsed.val, Model)

\* C10: a model that carries relationship_dynamics or custom_directives
\* carries the same relationship_dynamics and custom_directives after
\* parseAPL(characterToAPL(m)).
C10_OptionalFieldsRoundTrip ==
  (RoundTripDone /\ (Has(Model, "relationship_dynamics") \/ Has(Model, "custom_directives"))) =>
    /\ reparsed.ok
    /\ SameValue(Get(reparsed.val, "relationship_dynamics"), Get(Model, "relationship_dynamics"))
    /\ SameValue(Get(reparsed.val, "custom_directives"), Get(Model, "custom_directives"))

\* the keys of a record value
Keys(x) == IF x.t = "obj" THEN {x.v[i].k : i \in 1..Len(x.v)} ELSE {}

VoiceFields == {"base_voice", "emotional_modulation", "accent", "pace"}

\* C11: a model whose voice_profile holds a one-level personality_markers
\* mapping keeps, after parseAPL(characterToAPL(m)), the four voice fields
\* and the same personality_markers mapping; no marker becomes a top-level
\* key of voice_profile.
C11_VoiceProfileRoundTrip ==
  LET voice == Get(Model, "voice_profile")
      markers == Prop(voice, "personality_markers")
      back == Get(reparsed.val, "voice_profile")
  IN  (RoundTripDone /\ voice.t = "obj" /\ markers.t = "obj") =>
        /\ reparsed.ok
        /\ \A f \in VoiceFields : Prop(back, f) = Prop(voice, f)
        /\ SameValue(Prop(back, "personality_markers"), markers)
        /\ Keys(markers) \cap Keys(back) = {}

\* validateSyntax(source) has been called next to parseAPL(source)
Validated == pc = "validated"

\* the numbers of the source lines that are neither blank nor a comment
CodeLineNumbers ==
  LET sl == SourceLines
  IN  {i \in 1..Len(sl) : LET t == Trim(sl[i]) IN t # "" /\ ~StartsWith(t, "#")}

\* some line of the source begins with the text p
HasLineBeginning(p) ==
  LET sl == SourceLines IN \E i \in CodeLineNumbers : StartsWith(Trim(sl[i]), p)

Reports(message) == \E i \in 1..Len(syntax.errors) : syntax.errors[i] = message

\* C12 as stated: for every source with neither an @character nor an
\* @archetype line, validateSyntax reports both missing directives while
\* parseAPL returns a model with name Unnamed Character, archetype Creator
\* and element Fire.
C12_MissingDirectivesStated ==
  (Validated /\ ~HasLineBeginning("@character") /\ ~HasLineBeginning("@archetype")) =>
    /\ Reports("Missing @character directive")
    /\ Reports("Missing @archetype directive")
    /\ result.ok
    /\ Get(Model, "name") = Str("Unnamed Character")
    /\ Get(Model, "archetype") = Str("Creator")
    /\ Get(Model, "element") = Str("Fire")

\* C12, amended: for every source with neither an @character nor an
\* @archetype line, validateSyntax reports both missing directives while
\* parseAPL returns a model with archetype Creator, with name Unnamed
\* Character unless an @name line is given, and with element Fire unless an
\* @element line is given.
C12_MissingDirectives ==
  (Validated /\ ~HasLineBeginning("@character") /\ ~HasLineBeginning("@archetype")) =>
    /\ Reports("Missing @character directive")
    /\ Reports("Missing @archetype directive")
    /\ result.ok
    /\ Get(Model, "archetype") = Str("Creator")
    /\ ~HasLineBeginning("@name") => Get(Model, "name") = Str("Unnamed Character")
    /\ ~HasLineBeginning("@element") => Get(Model, "element") = Str("Fire")

\* C12 witness: a source with an @element line only has been validated and
\* parsed
C12_Witness ==
  /\ Validated
  /\ source = "@element Water"
  /\ Reports("Missing @character directive")
  /\ Reports("Missing @archetype directive")
  /\ Get(Model, "element") = Str("Water")
  /\ Get(Model, "name") = Str("Unnamed Character")

LinesContaining(c) ==
  LET sl == SourceLines IN {i \in CodeLineNumbers : Includes(sl[i], c)}

\* C13: validateSyntax reports `Unclosed braces detected` exactly when more
\* non-blank, non-comment lines contain `{` than contain `}`.
C13_UnclosedBraces ==
  Validated =>
    (Reports("Unclosed braces detected")
       <=> Cardinality(LinesContaining("{")) > Cardinality(LinesContaining("}")))

\* C13 witness: a source with closing braces, yet more opening ones, has been
\* reported
C13_Witness ==
  /\ Validated
  /\ Reports("Unclosed braces detected")
  /\ LinesContaining("}") # {}

\* the brace depth after line n, given the numbers of the lines with `{` and
\* of the lines with `}`
DepthAfter(opening, closing, n) ==
  Cardinality({i \in opening : i <= n}) - Cardinality({i \in closing : i <= n})

\* C14: validateSyntax returns for every source; valid is true exactly when
\* the error list is empty, which holds exactly when the brace depth is never
\* negative after any line and zero at the end, some line begins with
\* @character and some line begins with @archetype.
C14_ValidIffWellFormed ==
  Validated =>
    /\ syntax.valid \in BOOLEAN
    /\ syntax.valid <=> (syntax.errors = <<>>)
    /\ LET opening == LinesContaining("{")
           closing == LinesContaining("}")
           last == Len(SourceLines)
       IN  syntax.valid <=>
             /\ \A n \in 1..last : DepthAfter(opening, closing, n) >= 0
             /\ DepthAfter(opening, closing, last) = 0
             /\ HasLineBeginning("@character")
             /\ HasLineBeginning("@archetype")

\* C14 witness: a source with a closed section and both directives has been
\* found valid
C14_Witness ==
  /\ Validated
  /\ syntax.valid
  /\ LinesContaining("{") # {}

\* validateAndComplete has been applied to the returned model
Revalidated == pc = "revalidated"

\* C15: validateAndComplete is idempotent: applied to the model it returned
\* for a raw parsed model, it returns a model equal to it field for field.
C15_ValidateIdempotent ==
  Revalidated =>
    /\ again.ok
    /\ again.val = Model

\* C15 witness: a raw model that lacked fields and carried a level outside
\* [0, 1] has been completed, and completed again
C15_Witness ==
  /\ Revalidated
  /\ again.ok
  /\ ~Has(character, "personality")
  /\ Has(Model, "personality")
  /\ Get(character, "consciousness_level").t = "num"
  /\ Get(character, "consciousness_level") # Get(Model, "consciousness_level")

\* getSuggestions(partialAPL, cursorPosition) has returned
Suggested == suggestions.ok

\* the text of the cursor's line up to the cursor
CurrentLine ==
  LET typed == SubSeq(partialAPL, 1, cursorPosition)
      breaks == {i \in 1..Len(typed) : Ch(typed, i) = "\n"}
      last == CHOOSE i \in breaks : \A j \in breaks : j <= i
  IN  IF breaks = {} THEN typed ELSE SubSeq(typed, last + 1, Len(typed))

\* the place of a suggestion in the list of directive names
DirectiveIndex(sg) == CHOOSE j \in 1..Len(Directives) : sg = "@" \o Directives[j]

\* C16: when the cursor's line starts with `@`, getSuggestions returns
\* exactly the directive names, each prefixed with `@`, that start with the
\* text typed after the `@`, in list order; `@arch` gives [`@archetype`] and
\* `@` alone gives all ten.
C16_DirectiveSuggestions ==
  (Suggested /\ StartsWith(CurrentLine, "@")) =>
    LET S == suggestions.val
    IN  /\ \A i \in 1..Len(S) :
              /\ \E j \in 1..Len(Directives) : S[i] = "@" \o Directives[j]
              /\ StartsWith(S[i], CurrentLine)
        /\ \A j \in 1..Len(Directives) :
              StartsWith("@" \o Directives[j], CurrentLine) =>
                \E i \in 1..Len(S) : S[i] = "@" \o Directives[j]
        /\ \A i1, i2 \in 1..Len(S) :
              i1 < i2 => DirectiveIndex(S[i1]) < DirectiveIndex(S[i2])
        /\ CurrentLine = "@arch" => S = <<"@archetype">>
        /\ CurrentLine = "@" => Len(S) = 10

\* C16 witness: `@arch` has been completed to `@archetype`
C16_Witness ==
  /\ Suggested
  /\ CurrentLine = "@arch"
  /\ suggestions.val = <<"@archetype">>

\* C17: getSuggestions returns the 6 archetype names whenever the cursor's
\* line contains `@archetype` (as for the line `@archetype ` with the cursor
\* at its end), and the 6 element names whenever it contains `@element`.
C17_ValueSuggestions ==
  Suggested =>
    /\ Includes(CurrentLine, "@archetype") => suggestions.val = ArchetypeNames
    /\ Includes(CurrentLine, "@element") => suggestions.val = SuggestedElements

\* a later parseAPL(source) has returned, after the caller changed the model
LaterDone == pc = "later"

\* C18: parseAPL returns a fresh model that shares no mutable structure with
\* the archetype registry or with the model of another call: after the
\* caller changes the returned model, the registry is what it was and a
\* later parseAPL of the same source returns what the first call returned.
C18_FreshModel ==
  LaterDone =>
    /\ registry = ARCHETYPE_DEFINITIONS
    /\ later = before

\* the directive name and the value text of a line starting with `@`
DirectiveOf(l) ==
  LET sp == IndexOf(l, " ") IN IF sp = 0 THEN SubSeq(l, 2, Len(l)) ELSE SubSeq(l, 2, sp - 1)

ValueOf(l) ==
  LET sp == IndexOf(l, " ") IN IF sp = 0 THEN "" ELSE SubSeq(l, sp + 1, Len(l))

ScalarDirectives == {"character", "archetype", "element", "consciousness_level"}

\* the line opens a section
OpensSection(l) ==
  StartsWith(l, "@") /\ DirectiveOf(l) \notin ScalarDirectives /\ Includes(ValueOf(l), "{")

\* some `}` line is consumed while the section k is open
ClosedSection(k) ==
  \E i \in 1..Len(lines) : \E j \in (i + 1)..Len(lines) :
    /\ OpensSection(lines[i]) /\ DirectiveOf(lines[i]) = k
    /\ lines[j] = "}"
    /\ \A n \in (i + 1)..(j - 1) : lines[n] # "}" /\ ~OpensSection(lines[n])

\* some line sets the field k by a scalar directive
ScalarLine(k) ==
  \E i \in 1..Len(lines) :
    StartsWith(lines[i], "@") /\ DirectiveOf(lines[i]) = k /\ ~OpensSection(lines[i])

\* what validateAndComplete gives a section the document does not set
DefaultOf(k) ==
  CASE k = "personality" ->
         DefaultPersonality(ARCHETYPE_DEFINITIONS[Get(Model, "archetype").v])
    [] k = "memory" -> DefaultMemory
    [] k = "conversation_patterns" -> DefaultConversationPatterns
    [] k = "mystical_abilities" -> DefaultMysticalAbilities
    [] OTHER -> Undef

\* the input of parseAPL(source) ended while a section was open
EndedInSection == Returned /\ Truthy(currentSection)

\* C19 as stated: a section is stored only when a `}` line is consumed while
\* it is open; if the input ends while a section is open, none of its
\* accumulated entries appears in the returned model and the section's
\* field takes its default (or stays absent for an optional section).
C19_UnclosedSectionStated ==
  EndedInSection =>
    /\ \A i \in 1..Len(Model) :
         Model[i].v.t = "obj" /\ ~ClosedSection(Model[i].k) =>
           Model[i].v = DefaultOf(Model[i].k)
    /\ Get(Model, currentSection.v) = DefaultOf(currentSection.v)

\* C19, amended: a section is stored only when a `}` line is consumed while
\* it is open; if the input ends while a section is open, its accumulated
\* entries are stored nowhere, and the section's field takes its default (or
\* stays absent for an optional section) unless another line of the
\* document, a closed section or a scalar directive of the same name, has
\* set it.
C19_UnclosedSectionDropped ==
  Returned =>
    /\ \A i \in 1..Len(character) :
         character[i].v.t = "obj" => ClosedSection(character[i].k)
    /\ EndedInSection =>
         /\ \A i \in 1..Len(Model) :
              Model[i].v.t = "obj" /\ ~ClosedSection(Model[i].k) =>
                Model[i].v = DefaultOf(Model[i].k)
         /\ ~(ClosedSection(currentSection.v) \/ ScalarLine(currentSection.v)) =>
              Get(Model, currentSection.v) = DefaultOf(currentSection.v)

\* C19 witness: the input ended inside a section that had accumulated an
\* entry, and the section's field is the default
C19_Witness ==
  /\ EndedInSection
  /\ currentSection = Str("memory")
  /\ Len(currentObject) > 0
  /\ Get(Model, "memory") = DefaultMemory

\* the positions at which the text t occurs in s
Places(s, t) == {i \in 1..(Len(s) - Len(t) + 1) : SubSeq(s, i, i + Len(t) - 1) = t}

\* the one position of a text that occurs once
Place(s, t) == CHOOSE i \in Places(s, t) : TRUE

\* the prompt from its BEHAVIORAL DIRECTIVES heading on
DirectivesPart ==
  SubSeq(prompt.val, Place(prompt.val, "BEHAVIORAL DIRECTIVES:"), Len(prompt.val))

\* the list item numbered n
Item(n) == "\n" \o NatToStr(n) \o ". "

\* the number of times the text t occurs in s
Occurrences(s, t) == Cardinality(Places(s, t))

\* C20: the fixed behavioural directives are numbered 1 to 7; the items of
\* custom_directives, when present, follow in their given order numbered 8,
\* 9, 10, ... with no gap and no repeated number; when custom_directives is
\* absent no item numbered 8 or above is rendered.
C20_DirectiveNumbering ==
  (Compiled /\ prompt.ok) =>
    LET part == DirectivesPart
        custom == Get(Model, "custom_directives")
        given == IF custom = Undef THEN <<>> ELSE custom.v
        at == [n \in 1..(7 + Len(given)) |-> Places(part, Item(n))]
    IN  /\ \A n \in 1..(7 + Len(given)) : Cardinality(at[n]) = 1
        /\ \A n \in (8 + Len(given))..(8 + MaxDirectives) : Occurrences(part, Item(n)) = 0
        /\ \A n \in 1..(6 + Len(given)) : \A i \in at[n] : \A j \in at[n + 1] : i < j
        /\ \A i \in 1..Len(given) :
              Places(part, Item(7 + i) \o given[i] \o "\n") = at[7 + i]

\* C20 witness: a prompt has been compiled for a model with three custom
\* directives, the last of them numbered 10
C20_Witness ==
  /\ Compiled
  /\ prompt.ok
  /\ Get(Model, "custom_directives").t = "arr"
  /\ Len(Get(Model, "custom_directives").v) = 3
  /\ Includes(prompt.val, "\n10. " \o Get(Model, "custom_directives").v[3] \o "\n")

\* C21: directives are recognised only outside sections: while a section is
\* open, only the closing `}` line leaves the section or changes a top-level
\* field of the model; a line beginning with `@` inside an open section
\* neither assigns a field nor replaces the open section and its accumulator.
C21_DirectivesOnlyAtRoot ==
  [][(pc = "loop" /\ idx <= Len(lines) /\ Truthy(currentSection) /\ idx' = idx + 1) =>
       \/ lines[idx] = "}"
       \/ /\ character' = character
          /\ currentSection' = currentSection
          /\ StartsWith(lines[idx], "@") => currentObject' = currentObject]_vars

\* the number of property lines of a source of ValueSources
ValueCount == Len(lines) - 2

\* the text written after the i-th key and its colon
ValueText(i) ==
  LET l == lines[i + 1] IN Trim(SubSeq(l, Len(ValueKey(i)) + 2, Len(l)))

\* what parseAPL stored for the i-th key
StoredValue(i) == Prop(Get(Model, "memory"), ValueKey(i))

\* the text is a decimal number: sign, digits, at most one point
FullDecimal(t) ==
  LET body == IF Len(t) > 0 /\ Ch(t, 1) \in {"+", "-"} THEN Tail(t) ELSE t
  IN  /\ \E i \in 1..Len(body) : IsDigit(Ch(body, i))
      /\ \A i \in 1..Len(body) : IsDigit(Ch(body, i)) \/ Ch(body, i) = "."
      /\ Cardinality({i \in 1..Len(body) : Ch(body, i) = "."}) <= 1

\* the rule order array, boolean, number, brace-object, string
KindOf(t) ==
  IF StartsWith(t, "[") /\ EndsWith(t, "]") THEN "arr"
  ELSE IF t \in {"true", "false"} THEN "bool"
  ELSE IF FullDecimal(t) THEN "num"
  ELSE IF StartsWith(t, "{") THEN "obj"
  ELSE "str"

\* the text without the quote at its start and the quote at its end
Unquoted(t) ==
  LET a == IF Len(t) > 0 /\ IsQuote(Ch(t, 1)) THEN Tail(t) ELSE t
  IN  IF Len(a) > 0 /\ IsQuote(Ch(a, Len(a))) THEN SubSeq(a, 1, Len(a) - 1) ELSE a

\* C22: a section value is an array, a boolean, a number, a brace-object or a
\* string by that rule order; it is a number exactly when its text is a
\* decimal number, and any other text, the empty text included, is stored as
\* a quote-stripped string.
C22_ValueInference ==
  Returned =>
    \A i \in 1..ValueCount :
      /\ StoredValue(i).t = KindOf(ValueText(i))
      /\ KindOf(ValueText(i)) = "str" => StoredValue(i) = Str(Unquoted(ValueText(i)))

\* C23: an array literal parses to the list of its elements, each
\* quote-stripped, whatever whitespace follows the commas: `["a", "b"]` and
\* `[a, b]` both give (a, b), and no element starts or ends with a quote.
C23_ArrayElements ==
  Returned =>
    \A i \in 1..ValueCount :
      KindOf(ValueText(i)) = "arr" =>
        /\ StoredValue(i).t = "arr"
        /\ ValueText(i) \in {"[a, b]", "[\"a\", \"b\"]"} => StoredValue(i).v = <<"a", "b">>
        /\ \A j \in 1..Len(StoredValue(i).v) :
             LET e == StoredValue(i).v[j]
             IN  Len(e) > 0 => ~IsQuote(Ch(e, 1)) /\ ~IsQuote(Ch(e, Len(e)))

\* the pair written in one comma-separated piece of a brace-object, split at
\* its first colon
PairOf(piece) ==
  LET c == IndexOf(piece, ":")
  IN  [k |-> Unquoted(Trim(SubSeq(piece, 1, c - 1))),
       v |-> Str(Unquoted(Trim(SubSeq(piece, c + 1, Len(piece)))))]

\* C24: a single-line brace-object parses to a flat mapping in which each
\* pair is split at its first colon only, so `{a: b:c}` maps a to `b:c`, and
\* key and value are quote-stripped.
C24_NestedObjectPairs ==
  Returned =>
    \A i \in 1..ValueCount :
      KindOf(ValueText(i)) = "obj" =>
        LET pieces == Split(Slice1(ValueText(i)), ",")
        IN  /\ StoredValue(i).t = "obj"
            /\ PairSet(StoredValue(i).v) = {PairOf(pieces[j]) : j \in 1..Len(pieces)}

\* parseAPL and validateSyntax have returned on the source and on the text
\* derived from it
Compared == pc = "compared"

\* the model of a document that sets nothing
AllDefaults ==
  <<[k |-> "name", v |-> Str("Unnamed Character")],
    [k |-> "archetype", v |-> Str("Creator")],
    [k |-> "element", v |-> Str("Fire")],
    [k |-> "consciousness_level", v |-> Dec(FALSE, "0", "7")],
    [k |-> "personality",
     v |-> Obj(<<[k |-> "traits",
                  v |-> Arr(<<"innovative", "passionate", "visionary", "ambitious">>)],
                 [k |-> "voice", v |-> Str("neutral")],
                 [k |-> "knowledge_domains", v |-> Arr(<<"general">>)],
                 [k |-> "emotional_range", v |-> Str("balanced")]>>)],
    [k |-> "memory", v |-> DefaultMemory],
    [k |-> "conversation_patterns", v |-> DefaultConversationPatterns],
    [k |-> "mystical_abilities", v |-> DefaultMysticalAbilities]>>

\* C25: blank lines and comment lines have no effect: a source and the
\* source without them, also without those between the lines of an open
\* section, give the same parseAPL model and the same validateSyntax valid
\* flag; the empty source parses to the all-defaults model.
C25_NoiseHasNoEffect ==
  Compared =>
    /\ otherParse = result
    /\ otherSyntax.valid = syntax.valid
    /\ source = "" => result = Return(AllDefaults)

\* C25 witness: a source with a comment and a blank line inside a closed
\* section has been compared with the source without them
C25_Witness ==
  /\ Compared
  /\ source = "@memory {\n  # note: inside\n\n  core_experiences: \"old\"\n}"
  /\ variant = "@memory {\n  core_experiences: \"old\"\n}"
  /\ result.ok
  /\ Prop(Get(Model, "memory"), "core_experiences") = Str("old")

\* what each shipped document writes: its header and one line of its memory
ShippedDocuments ==
  { [text |-> WISE_MENTOR, name |-> "Sage Elderoak", archetype |-> "Nurturer",
     element |-> "Earth", experiences |-> "guardian of sacred knowledge for millennia"],
    [text |-> CREATIVE_MUSE, name |-> "Luna Stardust", archetype |-> "Creator",
     element |-> "Fire", experiences |-> "born from the collision of stars and dreams"],
    [text |-> TECH_WIZARD, name |-> "Syntaxa the Architect", archetype |-> "Architect",
     element |-> "Ether",
     experiences |-> "emerged from the intersection of code and consciousness"],
    [text |-> ReadmeExample, name |-> "Elderoak the Wise", archetype |-> "Nurturer",
     element |-> "Earth", experiences |-> "guardian_of_sacred_grove"] }

\* C26: on each built-in template and on the README's example document,
\* validateSyntax reports no error and parseAPL commits the four sections
\* from the document, with the name, archetype and element written in it;
\* getTemplate with a name outside the three returns the wise_mentor
\* document.
C26_ShippedDocumentsAreValid ==
  /\ \A n \in TemplateRequests \ {"wise_mentor", "creative_muse", "tech_wizard"} :
       getTemplate(n) = WISE_MENTOR
  /\ \A d \in ShippedDocuments :
       (Validated /\ source = d.text) =>
         /\ syntax.valid /\ syntax.errors = <<>>
         /\ result.ok
         /\ Get(Model, "name") = Str(d.name)
         /\ Get(Model, "archetype") = Str(d.archetype)
         /\ Get(Model, "element") = Str(d.element)
         /\ \A k \in RequiredSections :
              /\ ClosedSection(k)
              /\ Get(Model, k).t = "obj"
              /\ Get(Model, k) = Get(character, k)
              /\ Get(Model, k) # DefaultOf(k)
         /\ Prop(Get(Model, "memory"), "core_experiences") = Str(d.experiences)

\* C26 witness: the tech_wizard template has been validated and parsed
C26_Witness ==
  /\ Validated
  /\ source = getTemplate("tech_wizard")
  /\ syntax.valid
  /\ Get(Model, "name") = Str("Syntaxa the Architect")
  /\ Prop(Get(Model, "mystical_abilities"), "system_visualization") = Bool(TRUE)

\* validateSyntax reports an unexpected closing brace on some line
ReportsUnexpectedBrace ==
  \E i \in 1..Len(syntax.errors) : EndsWith(syntax.errors[i], ": Unexpected closing brace")

\* the line i of parseAPL opens a section that no later line commits
NeverCommitted(i) ==
  /\ OpensSection(lines[i])
  /\ \/ \A j \in (i + 1)..Len(lines) : lines[j] # "}"
     \/ \E j \in (i + 1)..Len(lines) :
          /\ OpensSection(lines[j])
          /\ \A n \in (i + 1)..(j - 1) : lines[n] # "}"

\* C27: for every source on which validateSyntax reports neither an
\* unexpected closing brace nor unclosed braces, parseAPL ends with no
\* section open: every section opened by a directive whose value contains
\* `{` has been committed.
C27_BalancedMeansCommitted ==
  (Validated /\ ~ReportsUnexpectedBrace /\ ~Reports("Unclosed braces detected")) =>
    /\ ~Truthy(currentSection)
    /\ \A i \in 1..Len(lines) : ~NeverCommitted(i)

\* parseAPL has processed a directive of the name d
Processed(d) ==
  \E i \in 1..Len(lines) : StartsWith(lines[i], "@") /\ DirectiveOf(lines[i]) = d

\* C28: validateSyntax reports `Missing @character directive` exactly when
\* parseAPL processed no character directive, and `Missing @archetype
\* directive` exactly when parseAPL processed no archetype directive.
C28_MissingIffNotProcessed ==
  Validated =>
    /\ Reports("Missing @character directive") <=> ~Processed("character")
    /\ Reports("Missing @archetype directive") <=> ~Processed("archetype")

\* the pairs <<i, j>> of lines of parseAPL where line i opens the section k
\* and line j is the `}` that commits it
Commits(k) ==
  { p \in (1..Len(lines)) \X (1..Len(lines)) :
      /\ p[1] < p[2]
      /\ OpensSection(lines[p[1]]) /\ DirectiveOf(lines[p[1]]) = k
      /\ lines[p[2]] = "}"
      /\ \A n \in (p[1] + 1)..(p[2] - 1) : lines[n] # "}" /\ ~OpensSection(lines[n]) }

LastCommit(k) == CHOOSE p \in Commits(k) : \A q \in Commits(k) : q[2] <= p[2]

\* the key/value lines between the opening line and the closing line of p
PropertyLines(p) ==
  { n \in (p[1] + 1)..(p[2] - 1) : ~StartsWith(lines[n], "@") /\ Includes(lines[n], ":") }

KeyOf(l) == Trim(SubSeq(l, 1, IndexOf(l, ":") - 1))

TextOf(l) == Trim(SubSeq(l, IndexOf(l, ":") + 1, Len(l)))

\* the last of the lines of p that give the key
LastLineOf(p, key) ==
  CHOOSE n \in PropertyLines(p) :
    /\ KeyOf(lines[n]) = key
    /\ \A m \in PropertyLines(p) : KeyOf(lines[m]) = key => m <= n

\* a scalar directive of the name k comes after line j
ScalarLineAfter(k, j) ==
  \E i \in (j + 1)..Len(lines) :
    StartsWith(lines[i], "@") /\ DirectiveOf(lines[i]) = k /\ ~OpensSection(lines[i])

SectionNames == { DirectiveOf(lines[i]) : i \in {n \in 1..Len(lines) : OpensSection(lines[n])} }

\* C29: every committed section record contains exactly the key/value lines
\* consumed between its own opening directive and its closing `}`, a key
\* given twice keeping its last value; the keys of a section that is never
\* closed appear in no later section; when the same section is opened and
\* closed twice, the later record replaces the earlier one wholesale.
C29_SectionIsolation ==
  Returned =>
    \A k \in SectionNames :
      (Commits(k) # {} /\ ~ScalarLineAfter(k, LastCommit(k)[2])) =>
        LET p == LastCommit(k)
            record == Get(character, k)
        IN  /\ record.t = "obj"
            /\ Keys(record) = { KeyOf(lines[n]) : n \in PropertyLines(p) }
            /\ \A key \in Keys(record) :
                 Get(record.v, key) = PropertyValue(TextOf(lines[LastLineOf(p, key)]))
            /\ Get(Model, k) = record

\* C29 witness: a section left open with one key is followed by a section
\* opened and closed with other keys, and the model holds the latter only
C29_Witness ==
  /\ Returned
  /\ \E i \in 1..Len(lines) :
       /\ NeverCommitted(i)
       /\ lines[i + 1] = "relationship_templates: \"lost\""
       /\ \E p \in Commits("memory") : p[1] = i + 2
  /\ Keys(Get(Model, "memory")) = {"core_experiences", "growth_pattern"}

\* C29 witness of the other cases: a section closed twice keeps the later
\* record, whose key given twice has its last value
C29_WitnessReplaced ==
  /\ Returned
  /\ Cardinality(Commits("memory")) = 2
  /\ Includes(source, "growth_pattern: slow")
  /\ Get(Model, "memory") = Obj(<<[k |-> "core_experiences", v |-> Str("newer")]>>)

RECURSIVE TrimmedLines(_)
\* the lines of a text without their leading and trailing whitespace, the
\* blank ones left out
TrimmedLines(ls) ==
  IF Len(ls) = 0 THEN <<>>
  ELSE (IF Trim(ls[1]) = "" THEN <<>> ELSE <<Trim(ls[1])>>) \o TrimmedLines(Tail(ls))

\* C30: formatAPL preserves meaning: the formatted text parses to the same
\* model and has the same validateSyntax valid flag as the source;
\* formatting changes only the whitespace at the ends of lines and never
\* adds, removes or reorders a non-blank line; the indentation is never
\* negative.
C30_FormatPreservesMeaning ==
  Compared =>
    /\ variant = formatAPL(source)
    /\ otherParse = result
    /\ otherSyntax.valid = syntax.valid
    /\ TrimmedLines(Split(variant, "\n")) = TrimmedLines(SourceLines)
    /\ \A n \in 0..Len(SourceLines) : FormatLoop(SourceLines, n).indent >= 0

\* C30 witness: a section written with stray indentation after a closing
\* brace with no section open has been formatted and compared
C30_Witness ==
  /\ Compared
  /\ source = "}\n    @memory {\ncore_experiences: \"old\"\n      }"
  /\ variant = "}\n@memory {\n  core_experiences: \"old\"\n}"
  /\ result.ok
  /\ Prop(Get(Model, "memory"), "core_experiences") = Str("old")

====
